---- MODULE Spec2Model ----
(***************************************************************************)
(* Grid self-repair engine of the OKX grid strategy (src/grid_sys.py) with *)
(* the order gateway pieces it calls (src/account.py, src/okx_api.py,      *)
(* src/cfg.py).  Prices, sizes and times are integers: a price is a count  *)
(* of price units, a time a count of seconds.                              *)
(***************************************************************************)
EXTENDS Integers, Sequences, FiniteSets, TLC

(***************************************************************************)
(* Bounds of the model.                                                    *)
(***************************************************************************)
\* grid_levels_per_side: ladder levels generated on each side of the center
levels == 2
\* REPOST_MAX_PER_WINDOW: reposts of one price allowed per TTL window
repost_max == 2
\* number of place_missing / place_all passes explored
MaxPasses == 2
\* number of passes explored by the specifications with a narrower market
MaxDeepPasses == 3

(***************************************************************************)
(* Program constants.                                                      *)
(***************************************************************************)
grid_step == 15
ttl_sec == 1800
far_steps == 5
MAKER_OFFSET_TICKS == 1
POST_ONLY == TRUE
FLAT_WINDOW_SEC == 60
lotSz == 1
minSz == 1
BASE_SZ == 1

\* risk guard (ratios in basis points, distances in price units)
MARGIN_STOP_PCT == 1000
MARGIN_RESUME_PCT == 1200
MARGIN_CHECK_SEC == 5
MARGIN_FALLBACK == 1200
LIQPX_STOP_USD == 80
LIQPX_RESUME_USD == 140
\* control loop pacing, in seconds
SIGNAL_REFRESH_SEC == 30
TICK_REFRESH_SEC == 3
\* DCA window: loss fractions in hundredths
DCA_ENABLE == TRUE
DCA_MIN_PCT == 8
DCA_MAX_PCT == 24
DCA_TOTAL_CAP == 4
\* take profit: amounts in tenths of a USD, the ratio in tenths
TP_BASE_USD == 5
TP_PARTIAL_RATIO == 3
TREND_REQUIRE_PROFIT == TRUE
DCA_FIXED_NOTIONAL_USD == 8
TREND_NOTIONAL_USD == 8
TREND_DAILY_CAP == 5
TREND_COOLDOWN_SEC == 180
\* trailing: the USD floor in tenths, the share of the peak in thousandths
TP_TRAIL_USD == 5
TP_TRAIL_PCT == 7

\* instrument tick sizes (Market.spec["tickSz"]) the model is run with
TickSizes == {2}
\* centers handed to rebuild (the mid price at start-up)
Centers == {100}
\* seconds that pass between two consecutive passes of the control loop
Dts == {60, 1800}
\* position quantities reported by the exchange for one side
PosQtys == {0, 1}

VARIABLES
    tickSz,             \* Market.spec["tickSz"]
    center,             \* Grid.center
    buy_lv,             \* Grid.buy_lv : sequence of <<raw_px, size>>
    sell_lv,            \* Grid.sell_lv
    missing_since,      \* Grid._missing_since : px_cmp -> first-missing ts
    repost_count,       \* Grid._repost_count  : px_cmp -> <<win_ts, cnt>>
    last_pos_long,      \* Grid._last_pos_long
    last_pos_short,     \* Grid._last_pos_short
    last_flat_ts_long,  \* Grid._last_flat_ts_long
    last_flat_ts_short, \* Grid._last_flat_ts_short
    pause_long,         \* Account.pause_long  (set by the DCA window)
    pause_short,        \* Account.pause_short
    clock,              \* time.time() at the latest pass
    passes,             \* number of passes run so far
    orders,             \* orders handed to place_limit by the latest step
    last,               \* what the latest step was and what it read
    streak,             \* history: px_cmp -> the run of passes that found it missing
    reposts,            \* history: px_cmp -> the gated reposts of its current window
    paused,             \* MarginGuard.paused (Strategy.guard.paused)
    _liq_paused,        \* Strategy._liq_paused
    _last_ts,           \* MarginGuard._last_ts
    last_signal_ts,     \* Strategy.last_signal_ts
    first_entry_px,     \* Account.first_entry_px_long/_short (0 for None)
    in_dca,             \* Strategy.in_dca_long/_short
    dca_used,           \* Strategy.dca_used_long/_short
    partial_done,       \* Account.partial_done_long/_short
    trail_active,       \* Account.trail_active_long/_short
    trail_peak_upl,     \* Account.trail_peak_upl_long/_short
    trend_open,         \* Strategy.trend_open_long/_short
    _trend_day,         \* Strategy._trend_day
    trend_daily_count,  \* Strategy.trend_daily_count_long/_short
    last_trend_ts,      \* Strategy.last_trend_ts_long/_short
    sig,                \* the resonance signal of the current iteration
    pc,                 \* position of the control loop
    sorders,            \* market orders handed to place_order by the latest step
    cancels,            \* <<tag, side>> cancellations issued by the latest step
    slast,              \* what the latest strategy step was and what it read
    samples,            \* history: the margin samples evaluated, with the flag after each
    ran_ts,             \* history: phase -> time.time() of its latest run (-1: never)
    _CL_COUNTER,        \* okx_api._CL_COUNTER
    posts,              \* order submissions (POST /api/v5/trade/order) of the latest gateway call
    gw,                 \* what the latest place_limit / place_market call read and returned
    tuning,             \* what the latest cfg.apply_tuning call was given and did
    resting,            \* GRID orders of the engine resting on the exchange
    _had_full_live,     \* Grid._had_full_live
    last_rebuild_ts,    \* Strategy.last_rebuild_ts
    rb                  \* what the latest test for a ladder with one side eaten read and did

gvars == <<tickSz, center, buy_lv, sell_lv, missing_since, repost_count,
           last_pos_long, last_pos_short, last_flat_ts_long, last_flat_ts_short,
           pause_long, pause_short, clock, passes, orders, last, streak, reposts>>

\* the state of the strategy and of the risk guard, and its step records
svars == <<paused, _liq_paused, _last_ts, last_signal_ts, first_entry_px, in_dca,
           dca_used, partial_done, trail_active, trail_peak_upl, trend_open,
           _trend_day, trend_daily_count, last_trend_ts, sig, pc, sorders, cancels, slast, samples>>

\* the rebuild of a ladder with one side eaten, and the orders that rest
rebuildvars == <<resting, _had_full_live, last_rebuild_ts, rb>>

\* the order gateway and the configuration, and the history of the phases
evars == <<ran_ts, _CL_COUNTER, posts, gw, tuning, rebuildvars>>

vars == <<gvars, svars, evars>>

(***************************************************************************)
(* Dictionaries (Python dict) as functions with a finite domain.           *)
(***************************************************************************)
EmptyDict == [k \in {} |-> 0]
Has(d, k) == k \in DOMAIN d
Put(d, k, v) == [x \in (DOMAIN d) \cup {k} |-> IF x = k THEN v ELSE d[x]]
Pop(d, k) == [x \in (DOMAIN d) \ {k} |-> d[x]]

Abs(x) == IF x < 0 THEN -x ELSE x

\* F applied to the value of v (v is computed once, as in a Python assignment)
Then(v, F(_)) == CHOOSE r \in {F(s) : s \in {v}} : TRUE

(***************************************************************************)
(* cfg.round_price: buy rounds toward zero (ROUND_DOWN), sell away from    *)
(* zero (ROUND_UP), to a multiple of the tick.                             *)
(***************************************************************************)
round_price(price, tick, side) ==
    LET mag == Abs(price)
        q   == IF side = "buy" THEN mag \div tick
                               ELSE (mag + tick - 1) \div tick
    IN  (IF price < 0 THEN 0 - q ELSE q) * tick

(***************************************************************************)
(* cfg.align_size: at least minSz, rounded up to a multiple of lotSz.      *)
(***************************************************************************)
align_size(size, lot, min) ==
    LET s == IF size < min THEN min ELSE size
    IN  ((s + lot - 1) \div lot) * lot

(***************************************************************************)
(* Grid._effective_limit_px: the price compared against the live set.      *)
(***************************************************************************)
_effective_limit_px(side, px) ==
    LET delta == tickSz * MAKER_OFFSET_TICKS
        moved == IF side = "buy" THEN px - delta ELSE px + delta
        px_adj == IF POST_ONLY /\ MAKER_OFFSET_TICKS > 0
                  THEN (IF moved <= 0 THEN tickSz ELSE moved)
                  ELSE px
    IN  round_price(px_adj, tickSz, side)

(***************************************************************************)
(* Account.place_order (limit branch): the price handed to place_limit for *)
(* a requested price px.                                                   *)
(***************************************************************************)
place_order(side, px) ==
    LET delta == tickSz * MAKER_OFFSET_TICKS
        moved == IF side = "buy" THEN px - delta ELSE px + delta
    IN  IF POST_ONLY /\ MAKER_OFFSET_TICKS > 0
        THEN round_price(IF moved <= 0 THEN tickSz ELSE moved, tickSz, side)
        ELSE px

SideOf(pos_side) == IF pos_side = "long" THEN "buy" ELSE "sell"

(***************************************************************************)
(* Grid._post_one: the orders it hands to the gateway (none when the       *)
(* aligned size is not positive).  via names the caller.                   *)
(***************************************************************************)
_post_one(side, px, sz, via) ==
    LET sz_aligned == align_size(sz, lotSz, minSz)
        px_aligned == _effective_limit_px(side, px)
    IN  IF sz_aligned <= 0 THEN <<>>
        ELSE << [side |-> side, raw |-> px, cmp |-> px_aligned,
                 px |-> place_order(side, px_aligned), sz |-> sz_aligned,
                 via |-> via] >>

(***************************************************************************)
(* Python sorted(): ascending sequence of a set of integers, and a level   *)
(* list sorted by raw price.                                               *)
(***************************************************************************)
SetMin(S) == CHOOSE x \in S : \A y \in S : x <= y

RECURSIVE SortedSeq(_)
SortedSeq(S) ==
    IF S = {} THEN <<>>
    ELSE LET m == SetMin(S) IN <<m>> \o SortedSeq(S \ {m})

Range(s) == {s[i] : i \in DOMAIN s}

RECURSIVE SortedLevels(_)
SortedLevels(lvset) ==
    IF lvset = {} THEN <<>>
    ELSE LET m == CHOOSE x \in lvset : \A y \in lvset : x[1] <= y[1]
         IN  <<m>> \o SortedLevels(lvset \ {m})

(***************************************************************************)
(* Grid._full_ladder: the unified ladder of effective prices, ascending.   *)
(***************************************************************************)
_full_ladder ==
    SortedSeq({_effective_limit_px("buy", lv[1]) : lv \in Range(buy_lv)}
              \cup {_effective_limit_px("sell", lv[1]) : lv \in Range(sell_lv)})

LadderPrices == Range(_full_ladder)

IndexOf(seq, x) == CHOOSE i \in DOMAIN seq : seq[i] = x

\* a neighbour test that looks at the lower neighbour only
_neighbors_missing_below(ladder, live_set, px_cmp) ==
    IF px_cmp \notin Range(ladder) THEN FALSE
    ELSE LET i == IndexOf(ladder, px_cmp)
         IN  i - 1 >= 1 /\ ladder[i - 1] \notin live_set

(***************************************************************************)
(* Grid._neighbors_missing                                                 *)
(***************************************************************************)
_neighbors_missing(ladder, live_set, px_cmp) ==
    IF px_cmp \notin Range(ladder) THEN FALSE
    ELSE LET i == IndexOf(ladder, px_cmp)
         IN  \/ (i - 1 >= 1 /\ ladder[i - 1] \notin live_set)
             \/ (i + 1 <= Len(ladder) /\ ladder[i + 1] \notin live_set)

\* a window test that lets one repost too many through
_window_ok_and_inc_loose(rc, px_cmp, now_ts) ==
    LET e0  == IF Has(rc, px_cmp) THEN rc[px_cmp] ELSE <<now_ts, 0>>
        e   == IF now_ts - e0[1] >= ttl_sec THEN <<now_ts, 0>> ELSE e0
    IN  IF e[2] > repost_max THEN <<FALSE, rc>>
        ELSE <<TRUE, Put(rc, px_cmp, <<e[1], e[2] + 1>>)>>

(***************************************************************************)
(* Grid._window_ok_and_inc: <<allowed, repost_count afterwards>>           *)
(***************************************************************************)
_window_ok_and_inc(rc, px_cmp, now_ts) ==
    LET e0  == IF Has(rc, px_cmp) THEN rc[px_cmp] ELSE <<now_ts, 0>>
        e   == IF now_ts - e0[1] >= ttl_sec THEN <<now_ts, 0>> ELSE e0
    IN  IF e[2] >= repost_max THEN <<FALSE, rc>>
        ELSE <<TRUE, Put(rc, px_cmp, <<e[1], e[2] + 1>>)>>

(***************************************************************************)
(* Grid._faraway_reset_if_needed: the two dictionaries afterwards.         *)
(***************************************************************************)
FarFrom(now_px, px_cmp) == Abs(now_px - px_cmp) >= far_steps * grid_step

_faraway_reset_if_needed(st, now_px) ==
    LET to_clear == {p \in DOMAIN st.rc : FarFrom(now_px, p)}
    IN  [st EXCEPT !.rc = [p \in (DOMAIN st.rc) \ to_clear |-> st.rc[p]],
                   !.ms = [p \in (DOMAIN st.ms) \ to_clear |-> st.ms[p]]]

(***************************************************************************)
(* The tests of the two repost loops: the level's compare price, whether   *)
(* it is in the live set, whether its side is paused, whether the missing  *)
(* timer has run for the TTL.                                              *)
(***************************************************************************)
cmp_px(side, raw_px) == _effective_limit_px(SideOf(side), raw_px)

\* a live test on the raw ladder price
level_is_live_raw(side, raw_px, live_set) == raw_px \in live_set

\* a pause test that reads the other side's flag
side_paused_other(side) ==
    (side = "long" /\ pause_short) \/ (side = "short" /\ pause_long)

\* a TTL test against the flat-edge window length
ttl_elapsed_flat_window(now_ts, first_ts) == now_ts - first_ts >= FLAT_WINDOW_SEC

\* a TTL test that needs more than the TTL
ttl_elapsed_strict(now_ts, first_ts) == now_ts - first_ts > ttl_sec

level_is_live(side, raw_px, live_set) == cmp_px(side, raw_px) \in live_set

side_paused(side) ==
    (side = "long" /\ pause_long) \/ (side = "short" /\ pause_short)

ttl_elapsed(now_ts, first_ts) == now_ts - first_ts >= ttl_sec

(***************************************************************************)
(* Grid._rearm_side_all_missing over levels lv[i..]; rej is the set of     *)
(* compare prices whose submission returns no order id.                    *)
(***************************************************************************)
RECURSIVE _rearm_side_all_missing(_, _, _, _, _, _)
_rearm_side_all_missing(side, lv, i, live_set, rej, st) ==
    IF i > Len(lv) THEN st
    ELSE LET raw_px == lv[i][1]
             sz     == lv[i][2]
             px_cmp == cmp_px(side, raw_px)
             sent   == _post_one(SideOf(side), raw_px, sz, "flat")
             oid    == sent # <<>> /\ px_cmp \notin rej
             st1    == IF level_is_live(side, raw_px, live_set) THEN st
                       ELSE [st EXCEPT !.ord = @ \o sent,
                                       !.ms = IF oid THEN Pop(@, px_cmp) ELSE @]
         IN  Then(st1, LAMBDA n : _rearm_side_all_missing(side, lv, i + 1, live_set, rej, n))

(***************************************************************************)
(* place_missing.handle_side, one level: the state after the loop body.    *)
(* st.rej is the set of compare prices whose submission returns no order   *)
(* id, st.oid whether the latest _post_one of the pass returned one, and   *)
(* st.placed the counter of those that did.                                *)
(***************************************************************************)
handle_level(side, raw_px, sz, ladder, live_set, now_ts, st) ==
    LET px_cmp == cmp_px(side, raw_px)
        sent   == _post_one(SideOf(side), raw_px, sz, "gate")
        oid    == sent # <<>> /\ px_cmp \notin st.rej
        is_paused == side_paused(side)
        known  == Has(st.ms, px_cmp) /\ st.ms[px_cmp] # 0
        first_ts == IF known THEN st.ms[px_cmp] ELSE now_ts
        ms1    == IF known THEN st.ms ELSE Put(st.ms, px_cmp, now_ts)
        allow_by_neighbor == _neighbors_missing(ladder, live_set, px_cmp)
        allow_by_ttl == ttl_elapsed(now_ts, first_ts)
        win    == _window_ok_and_inc(st.rc, px_cmp, now_ts)
    IN  IF level_is_live(side, raw_px, live_set) THEN [st EXCEPT !.ms = Pop(@, px_cmp)]
        ELSE IF is_paused THEN st
        ELSE IF ~(allow_by_neighbor \/ allow_by_ttl) THEN [st EXCEPT !.ms = ms1]
        ELSE IF ~win[1] THEN [st EXCEPT !.ms = ms1]
        ELSE [st EXCEPT !.ms = ms1, !.rc = win[2], !.ord = @ \o sent,
                        !.oid = oid, !.placed = IF oid THEN @ + 1 ELSE @]

\* a loop that ends at the first submission without an order id
stops_without_oid(oid) == oid

\* "if self._post_one(...): placed += 1" ends the loop body: whatever
\* _post_one returned, the for loop goes on to the next level
keeps_going(oid) == TRUE

RECURSIVE handle_side(_, _, _, _, _, _, _)
handle_side(side, lv, i, ladder, live_set, now_ts, st) ==
    IF i > Len(lv) \/ ~keeps_going(st.oid) THEN st
    ELSE Then(handle_level(side, lv[i][1], lv[i][2], ladder, live_set, now_ts, st),
              LAMBDA n : handle_side(side, lv, i + 1, ladder, live_set, now_ts, n))

(***************************************************************************)
(* Account.live_grid_prices over okx_api.fetch_open_orders: a query that   *)
(* fails three times makes _req return {} and the list of orders empty; a  *)
(* query that raises (no credentials) ends the pass.                       *)
(***************************************************************************)
QueryResults == {"ok", "http_fail", "raise"}

_live_set(q, on_exchange) == IF q = "ok" THEN on_exchange ELSE {}

\* the record of a step that is no place_missing pass
Step(op) == [op |-> op, q |-> "ok", live |-> {}, now_px |-> 0,
             flat_long |-> FALSE, flat_short |-> FALSE, failed |-> {},
             failed_before |-> {}, pq |-> "ok"]

(***************************************************************************)
(* Strategy.__init__ and MarginGuard.__init__.  A step record names the    *)
(* step (op), the market price at the step (m), the positions and the      *)
(* margin ratio it read, whether the guard flag was set when it started,   *)
(* where the handler returned (exit), for a trend pass the answers of      *)
(* trend_filters_ok (filt), and for a take-profit pass the take-profit     *)
(* state it started from (tp0) and what place_order returned for each      *)
(* order it submitted (ret).                                               *)
(***************************************************************************)
Sides == {"long", "short"}

BothSides(v) == [long |-> v, short |-> v]

NoPosition == [pos |-> 0, avgPx |-> 0, liqPx |-> 0, uPnl |-> 0]

FlatAccount == [ok |-> TRUE, long |-> NoPosition, short |-> NoPosition]

NoSignal == [bull |-> FALSE, bear |-> FALSE, vol_bull |-> FALSE, vol_bear |-> FALSE]

\* Account.__init__: the take-profit state of a side without a position
NoTpState == [partial_done |-> BothSides(FALSE), trail_active |-> BothSides(FALSE),
              peak |-> BothSides(0)]

SStep(op) == [op |-> op, m |-> 0, pos |-> FlatAccount, ratio |-> 0,
              reported |-> TRUE, was_paused |-> FALSE, exit |-> "done",
              filt |-> BothSides(FALSE), tp0 |-> NoTpState, ret |-> <<>>]

StrategyInit ==
    /\ paused = FALSE
    /\ _liq_paused = FALSE
    /\ _last_ts = 0
    /\ last_signal_ts = 0
    /\ first_entry_px = BothSides(0)
    /\ in_dca = BothSides(FALSE)
    /\ dca_used = BothSides(0)
    /\ partial_done = BothSides(FALSE)
    /\ trail_active = BothSides(FALSE)
    /\ trail_peak_upl = BothSides(0)
    /\ trend_open = BothSides(0)
    /\ _trend_day = 0
    /\ trend_daily_count = BothSides(0)
    /\ last_trend_ts = BothSides(0)
    /\ sig = NoSignal
    /\ pc = "takeover"
    /\ sorders = <<>>
    /\ cancels = {}
    /\ slast = SStep("init")
    /\ samples = <<>>

\* the policy phases of the control loop
PolicyPhases == {"dca", "trend", "tp"}

NeverRan == [ph \in PolicyPhases |-> -1]

\* no gateway call yet
NoCall == [ordType |-> "", post |-> <<>>, look |-> <<>>, ret |-> ""]

\* no apply_tuning call yet: cfg.GRID_STEP_USD and cfg.GRID_LEVELS_PER_SIDE
\* are the values Grid.__init__ copied
NoTuning == [snap |-> <<>>, old_step |-> grid_step, old_levels |-> levels,
             GRID_STEP_USD |-> grid_step, GRID_LEVELS_PER_SIDE |-> levels,
             raised |-> FALSE, cancelled |-> FALSE, rebuilt |-> FALSE, placed |-> FALSE]

\* the gateway and the configuration, which the grid and the strategy steps
\* leave alone
edgevars == <<_CL_COUNTER, posts, gw, tuning, rebuildvars>>

\* no test for a ladder with one side eaten yet
NoRebuildTest == [live_b |-> 0, live_s |-> 0, had |-> FALSE, since |-> 0,
                  fired |-> FALSE, cen |-> 0, center |-> 0]

(***************************************************************************)
(* State after construction: Grid.__init__, Account.__init__, the module   *)
(* globals of okx_api.                                                     *)
(***************************************************************************)
Init ==
    /\ tickSz \in TickSizes
    /\ center = 0
    /\ buy_lv = <<>>
    /\ sell_lv = <<>>
    /\ missing_since = EmptyDict
    /\ repost_count = EmptyDict
    /\ last_pos_long = 0
    /\ last_pos_short = 0
    /\ last_flat_ts_long = 0
    /\ last_flat_ts_short = 0
    /\ pause_long = FALSE
    /\ pause_short = FALSE
    /\ clock = 0
    /\ passes = 0
    /\ orders = <<>>
    /\ last = Step("init")
    /\ streak = EmptyDict
    /\ reposts = EmptyDict
    /\ StrategyInit
    /\ ran_ts = NeverRan
    /\ _CL_COUNTER = 0
    /\ posts = <<>>
    /\ gw = NoCall
    /\ tuning = NoTuning
    /\ resting = {}
    /\ _had_full_live = FALSE
    /\ last_rebuild_ts = 0
    /\ rb = NoRebuildTest

(***************************************************************************)
(* Grid.rebuild                                                            *)
(***************************************************************************)
rebuild(c) ==
    /\ center' = c
    /\ buy_lv' = [i \in 1..levels |-> <<c - grid_step * i, BASE_SZ>>]
    /\ sell_lv' = [i \in 1..levels |-> <<c + grid_step * i, BASE_SZ>>]
    /\ orders' = <<>>
    /\ last' = Step("rebuild")
    /\ UNCHANGED <<tickSz, streak, reposts, missing_since, repost_count, last_pos_long, last_pos_short,
                   last_flat_ts_long, last_flat_ts_short, pause_long, pause_short,
                   clock, passes>>

Rebuild == (\E c \in Centers : center # c /\ rebuild(c)) /\ UNCHANGED <<svars, evars>>

(***************************************************************************)
(* Grid.place_all                                                          *)
(***************************************************************************)
RECURSIVE place_all_side(_, _, _, _)
place_all_side(side, lv, i, live) ==
    IF i > Len(lv) THEN <<>>
    ELSE (IF _effective_limit_px(side, lv[i][1]) \in live THEN <<>>
          ELSE _post_one(side, lv[i][1], lv[i][2], "all"))
         \o place_all_side(side, lv, i + 1, live)

place_all(q, on_exchange) ==
    LET live == _live_set(q, on_exchange)
    IN  /\ orders' = IF q = "raise" THEN <<>>
                     ELSE place_all_side("buy", buy_lv, 1, live)
                          \o place_all_side("sell", sell_lv, 1, live)
        /\ last' = [Step("place_all") EXCEPT !.q = q, !.live = live]
        /\ passes' = passes + 1
        /\ UNCHANGED <<tickSz, center, buy_lv, sell_lv, missing_since, repost_count,
                       last_pos_long, last_pos_short, last_flat_ts_long,
                       last_flat_ts_short, pause_long, pause_short, clock, streak, reposts>>

PlaceAll ==
    /\ passes < MaxPasses
    /\ buy_lv # <<>>
    /\ \E q \in QueryResults, on_exchange \in SUBSET LadderPrices :
          (q # "ok" => on_exchange = {}) /\ place_all(q, on_exchange) /\ UNCHANGED <<svars, evars>>

(***************************************************************************)
(* Grid._update_flat_edges: pos is the positions query's answer; ok is     *)
(* FALSE when reading it throws.                                           *)
(***************************************************************************)
\* the positions the account holds: hedge mode, at most one side open here
Held == {h \in [long : PosQtys, short : PosQtys] : h.long = 0 \/ h.short = 0}

\* Account.get_positions as the grid reads it, with the outcome q of the
\* query: fetch_positions answers [] when the request failed three times,
\* and the loop over no rows leaves the zeros of the initial structure
get_positions(q, held) ==
    [ok |-> q # "raise", q |-> q,
     long |-> IF q = "ok" THEN held.long ELSE 0,
     short |-> IF q = "ok" THEN held.short ELSE 0]

PosAnswers == {get_positions("ok", h) : h \in Held}

_update_flat_edges(pos, now_ts) ==
    IF ~pos.ok
    THEN [pos_long |-> last_pos_long, pos_short |-> last_pos_short,
          flat_ts_long |-> last_flat_ts_long, flat_ts_short |-> last_flat_ts_short]
    ELSE [pos_long |-> pos.long, pos_short |-> pos.short,
          flat_ts_long |-> IF last_pos_long > 0 /\ pos.long <= 0
                           THEN now_ts ELSE last_flat_ts_long,
          flat_ts_short |-> IF last_pos_short > 0 /\ pos.short <= 0
                            THEN now_ts ELSE last_flat_ts_short]

\* a flat-edge test that ends before the 60th second
FlatFresh_strict(flat_ts, now_ts) == flat_ts # 0 /\ now_ts - flat_ts < FLAT_WINDOW_SEC

\* a flat edge lies at most FLAT_WINDOW_SEC before now_ts
FlatFresh(flat_ts, now_ts) == flat_ts # 0 /\ now_ts - flat_ts <= FLAT_WINDOW_SEC

FlatEdgeFresh(pos, now_ts) ==
    LET fe == _update_flat_edges(pos, now_ts)
    IN  FlatFresh(fe.flat_ts_long, now_ts) \/ FlatFresh(fe.flat_ts_short, now_ts)

(***************************************************************************)
(* Grid.place_missing                                                      *)
(***************************************************************************)
(***************************************************************************)
(* History of the passes: for every ladder level the latest pass found     *)
(* missing, the time of the first pass of the unbroken run of passes that  *)
(* found it missing (since), whether one of them skipped it because its    *)
(* side was paused (paused), and whether one of them dropped its recorded  *)
(* timer by the far-away reset or a flat-edge repost (reset).              *)
(***************************************************************************)
PauseFlag(side) == IF side = "long" THEN pause_long ELSE pause_short

SideOfPx(px_cmp) ==
    IF \E lv \in Range(buy_lv) : cmp_px("long", lv[1]) = px_cmp THEN "long" ELSE "short"

StreakAfter(live_set, now_ts, ms_after_resets) ==
    LET gone == LadderPrices \ live_set
        old(p) == IF Has(streak, p) THEN streak[p]
                  ELSE [since |-> now_ts, paused |-> FALSE, reset |-> FALSE]
    IN  [p \in gone |->
            [since  |-> old(p).since,
             paused |-> old(p).paused \/ PauseFlag(SideOfPx(p)),
             reset  |-> old(p).reset
                        \/ (Has(missing_since, p) /\ ~Has(ms_after_resets, p))]]

(***************************************************************************)
(* History of the gated reposts of each price: the start of the TTL-length *)
(* window opened by its first gated repost (a repost TTL or more after the *)
(* start opens the next window), the number of gated reposts inside it (n) *)
(* and whether a far-away reset ever dropped the price's counter (far).     *)
(***************************************************************************)
RepostsAfter(ord, now_ts, rc_after_resets) ==
    LET gate == {ord[i].cmp : i \in {j \in DOMAIN ord : ord[j].via = "gate"}}
        hit  == {p \in DOMAIN repost_count : ~Has(rc_after_resets, p)}
        old(p) == IF Has(reposts, p)
                  THEN [reposts[p] EXCEPT !.far = @ \/ p \in hit]
                  ELSE [start |-> now_ts, n |-> 0, far |-> FALSE]
    IN  [p \in (DOMAIN reposts) \cup gate |->
            IF p \notin gate THEN old(p)
            ELSE IF now_ts - old(p).start >= ttl_sec
                 THEN [old(p) EXCEPT !.start = now_ts, !.n = 1]
                 ELSE [old(p) EXCEPT !.n = @ + 1]]

Commit(st) ==
    /\ missing_since' = st.ms
    /\ repost_count' = st.rc
    /\ orders' = st.ord

place_missing(q, on_exchange, now_px, pos, now_ts, rej) ==
    /\ clock' = now_ts
    /\ passes' = passes + 1
    /\ UNCHANGED <<tickSz, center, buy_lv, sell_lv, pause_long, pause_short>>
    /\ IF q = "raise"
       THEN /\ UNCHANGED <<missing_since, repost_count, last_pos_long, last_pos_short,
                           last_flat_ts_long, last_flat_ts_short, streak, reposts>>
            /\ orders' = <<>>
            /\ last' = [Step("place_missing") EXCEPT !.q = q]
       ELSE \E live_set \in {_live_set(q, on_exchange)},
               fe \in {_update_flat_edges(pos, now_ts)}, ladder \in {_full_ladder} :
            LET flat_long == FlatFresh(fe.flat_ts_long, now_ts)
                flat_short == FlatFresh(fe.flat_ts_short, now_ts)
                st0 == [ms |-> missing_since, rc |-> repost_count, ord |-> <<>>,
                        rej |-> rej, oid |-> TRUE, placed |-> 0]
                st1 == IF flat_long
                       THEN _rearm_side_all_missing("long", buy_lv, 1, live_set, rej, st0)
                       ELSE st0
                st2 == IF flat_short
                       THEN Then(st1, LAMBDA n :
                                _rearm_side_all_missing("short", sell_lv, 1, live_set, rej, n))
                       ELSE st1
            IN  \E st3 \in {_faraway_reset_if_needed(st2, now_px)} :
                \E st4 \in {handle_side("long", SortedLevels(Range(buy_lv)), 1,
                                         ladder, live_set, now_ts, st3)} :
                \E st5 \in {handle_side("short", SortedLevels(Range(sell_lv)), 1,
                                         ladder, live_set, now_ts, st4)} :
                    /\ last_pos_long' = fe.pos_long
                    /\ last_pos_short' = fe.pos_short
                    /\ last_flat_ts_long' = fe.flat_ts_long
                    /\ last_flat_ts_short' = fe.flat_ts_short
                    /\ Commit(st5)
                    /\ streak' = StreakAfter(live_set, now_ts, st3.ms)
                    /\ reposts' = RepostsAfter(st5.ord, now_ts, st3.rc)
                    /\ last' = [op |-> "place_missing", q |-> q, live |-> live_set,
                                now_px |-> now_px, flat_long |-> flat_long,
                                flat_short |-> flat_short,
                                failed |-> {st5.ord[k].cmp : k \in DOMAIN st5.ord} \cap rej,
                                failed_before |-> last.failed, pq |-> pos.q]

NowPxs == {center, center + 4 * grid_step}

RejectSets == {{}, LadderPrices}

\* Order lists the exchange answers with: every ladder level resting, one
\* level gone, two adjacent levels gone, nothing resting.
LiveChoices ==
    LET L == _full_ladder
    IN  {Range(L), {}}
        \cup {Range(L) \ {L[i]} : i \in DOMAIN L}
        \cup {Range(L) \ {L[i], L[i + 1]} : i \in 1..(Len(L) - 1)}

\* a failed query carries no order list; a pass that ends at the query reads
\* neither the price nor the positions; the gateway's answer to a submission
\* is only read by the flat-edge repost
PassInputs ==
    {i \in [q : QueryResults, on_exchange : LiveChoices, now_px : NowPxs,
            pos : PosAnswers] :
        /\ i.q # "ok" => i.on_exchange = {}
        /\ i.q = "raise" => (i.now_px = center /\ i.pos = get_positions("ok", [long |-> 0, short |-> 0]))}

PlaceMissingWith(Inputs, max) ==
    /\ passes < max
    /\ \E i \in Inputs, dt \in Dts, rej \in RejectSets :
          /\ rej # {} => (i.q # "raise" /\ FlatEdgeFresh(i.pos, clock + dt))
          /\ place_missing(i.q, i.on_exchange, i.now_px, i.pos, clock + dt, rej)
    /\ UNCHANGED <<svars, evars>>

PlaceMissing == PlaceMissingWith(PassInputs, MaxPasses)

\* a market whose price stays at the center and whose queries all answer;
\* no level, one level or every level is gone
QuietInputs ==
    {i \in PassInputs :
        /\ i.q = "ok" /\ i.now_px = center
        /\ Cardinality(LadderPrices \ i.on_exchange) \in {0, 1, Cardinality(LadderPrices)}}

PlaceMissingQuiet == PlaceMissingWith(QuietInputs, MaxDeepPasses)

\* an account that never holds a position, and whose queries all answer
NoPositionInputs == {i \in PassInputs : i.q = "ok" /\ i.pos.long = 0 /\ i.pos.short = 0}

PlaceMissingNoPosition == PlaceMissingWith(NoPositionInputs, MaxDeepPasses)

(***************************************************************************)
(* Strategy._dca_if_needed sets and clears the side pause flags.           *)
(***************************************************************************)
SetPause ==
    /\ passes < MaxPasses
    /\ \E side \in {"long", "short"}, b \in BOOLEAN :
          /\ pause_long' = IF side = "long" THEN b ELSE pause_long
          /\ pause_short' = IF side = "short" THEN b ELSE pause_short
          /\ <<pause_long', pause_short'>> # <<pause_long, pause_short>>
    /\ orders' = <<>>
    /\ last' = Step("set_pause")
    /\ UNCHANGED <<tickSz, center, buy_lv, sell_lv, missing_since, repost_count,
                   last_pos_long, last_pos_short, last_flat_ts_long, last_flat_ts_short,
                   clock, passes, streak, reposts>>
    /\ UNCHANGED <<svars, evars>>

Next == Rebuild \/ PlaceAll \/ PlaceMissing \/ SetPause

Spec == Init /\ [][Next]_vars

\* three passes in a quiet market: the flat-edge window over consecutive passes
NextFlat == Rebuild \/ PlaceMissingQuiet

SpecFlat == Init /\ [][NextFlat]_vars

\* three passes without positions: the repost window over consecutive passes
NextWindow == Rebuild \/ PlaceMissingNoPosition

SpecWindow == Init /\ [][NextWindow]_vars

\* passes without positions in a quiet market, in which the gateway returns
\* no order id for the submissions of one level, or of none
OneLevelRejects == {{}} \cup {{p} : p \in LadderPrices}

NoPositionQuietInputs == {i \in NoPositionInputs : i.now_px = center}

PlaceMissingRejecting ==
    /\ passes < MaxDeepPasses
    /\ \E i \in NoPositionQuietInputs, dt \in Dts, rej \in OneLevelRejects :
          place_missing(i.q, i.on_exchange, i.now_px, i.pos, clock + dt, rej)
    /\ UNCHANGED <<svars, evars>>

NextReject == Rebuild \/ PlaceMissingRejecting

SpecReject == Init /\ [][NextReject]_vars

\* passes in a quiet market whose positions query answers or fails, with
\* the account holding a position or none; the orders query answers
PlaceMissingPositions ==
    /\ passes < MaxDeepPasses
    /\ \E on_exchange \in LiveChoices, dt \in Dts,
          pq \in {"ok", "http_fail"}, held \in Held :
          place_missing("ok", on_exchange, center, get_positions(pq, held),
                        clock + dt, {})
    /\ UNCHANGED <<svars, evars>>

NextPositions == Rebuild \/ PlaceMissingPositions

SpecPositions == Init /\ [][NextPositions]_vars

(***************************************************************************)
(* The strategy layer (src/strategy.py) and the margin guard               *)
(* (src/risk_sys.py).  Margin ratios are basis points, liquidation         *)
(* distances price units, PnL tenths of a USD.                             *)
(***************************************************************************)
\* number of control-loop iterations explored
MaxTicks == 4

\* Market.mid as the ticker reports it
Mids == {90, 300}

\* seconds between construction and the start of the loop, and the length
\* of one iteration (the sleep alone, or a slow iteration)
TickDts == {TICK_REFRESH_SEC, SIGNAL_REFRESH_SEC}

Position(q, avg, liq, upl) == [pos |-> q, avgPx |-> avg, liqPx |-> liq, uPnl |-> upl]

\* Account.get_positions: ok is FALSE when fetch_positions raises
Snapshot(long, short) == [ok |-> TRUE, long |-> long, short |-> short]

FailedSnapshot == [FlatAccount EXCEPT !.ok = FALSE]

(***************************************************************************)
(* self.acc.mkt.refresh_mid()(): Market.refresh_mid returns the float      *)
(* Market.mid, and the second pair of parentheses calls that float, which  *)
(* raises TypeError whatever the price m is.                               *)
(***************************************************************************)
refresh_mid_call(m) == [raised |-> TRUE, v |-> 0]

(***************************************************************************)
(* Account.get_margin_ratio_min_pct: the smallest reported ratio, or the   *)
(* fallback when the query fails or reports none.                          *)
(***************************************************************************)
get_margin_ratio_min_pct(ans) == IF ans.ok THEN ans.ratio ELSE MARGIN_FALLBACK

\* a guard with one threshold: paused exactly while the ratio is at or below stop
paused_no_hysteresis(p, ratio) == ratio <= MARGIN_STOP_PCT

\* MarginGuard.refresh, the flag after a sample
paused_after(p, ratio) ==
    IF ratio <= MARGIN_STOP_PCT THEN TRUE
    ELSE IF p /\ ratio >= MARGIN_RESUME_PCT THEN FALSE
    ELSE p

Max(a, b) == IF a >= b THEN a ELSE b

\* MarginGuard.refresh at time now with the exchange answering ans; step is
\* the record of the step so far, which keeps the ratio the guard evaluated
\* and whether the exchange reported it
MarginGuard_refresh(now, ans, step) ==
    IF now - _last_ts < Max(1, MARGIN_CHECK_SEC)
    THEN /\ UNCHANGED <<paused, _last_ts, samples>>
         /\ cancels' = {}
         /\ slast' = [step EXCEPT !.was_paused = paused, !.exit = "throttled"]
    ELSE \E ratio \in {get_margin_ratio_min_pct(ans)} :
         /\ _last_ts' = now
         /\ paused' = paused_after(paused, ratio)
         /\ cancels' = IF ratio <= MARGIN_STOP_PCT
                       THEN {<<tag, "any">> : tag \in {"GRID", "DCA", "ADD"}}
                       ELSE {}
         /\ samples' = Append(samples, [ratio |-> ratio, paused |-> paused'])
         /\ slast' = [step EXCEPT !.was_paused = paused, !.ratio = ratio,
                                   !.reported = ans.ok]

(***************************************************************************)
(* Strategy._liqpx_guard_check                                             *)
(***************************************************************************)
NoDist == [none |-> TRUE, v |-> 0]

_dist(px_now, d) ==
    IF px_now.raised \/ d.liqPx = 0 \/ d.pos <= 0
    THEN NoDist
    ELSE [none |-> FALSE, v |-> Abs(px_now.v - d.liqPx)]

\* "_dist(...) or None": a distance of zero counts as no distance
OrNone(d) == IF d.none \/ d.v = 0 THEN NoDist ELSE d

Losers(pos) == {s \in Sides : pos[s].pos > 0 /\ pos[s].uPnl < 0}

_liqpx_guard_check(m, pos) ==
    IF ~pos.ok
    THEN /\ UNCHANGED <<_liq_paused, paused>>
         /\ cancels' = {}
    ELSE
    LET px_now == refresh_mid_call(m)
        d_long == OrNone(_dist(px_now, pos.long))
        d_short == OrNone(_dist(px_now, pos.short))
        liq_too_close == \E d \in {d_long, d_short} : ~d.none /\ d.v <= LIQPX_STOP_USD
        liq_safe == \A d \in {d_long, d_short} : d.none \/ d.v >= LIQPX_RESUME_USD
    IN  IF liq_too_close
        THEN IF ~_liq_paused
             THEN /\ _liq_paused' = TRUE
                  /\ paused' = TRUE
                  /\ cancels' = {<<tag, "any">> : tag \in {"GRID", "DCA", "ADD"}}
                                \cup {<<tag, s>> : tag \in {"GRID", "DCA", "ADD"},
                                                   s \in Losers(pos)}
             ELSE /\ UNCHANGED <<_liq_paused, paused>>
                  /\ cancels' = {}
        ELSE IF _liq_paused /\ liq_safe
             THEN /\ _liq_paused' = FALSE
                  /\ paused' = FALSE
                  /\ cancels' = {}
             ELSE /\ UNCHANGED <<_liq_paused, paused>>
                  /\ cancels' = {}

(***************************************************************************)
(* Account.place_order with px = None: a market order through              *)
(* okx_api.place_market.                                                   *)
(***************************************************************************)
place_market(side, sz, reduce_only, tag, posSide) ==
    [side |-> side, sz |-> sz, reduce_only |-> reduce_only, tag |-> tag,
     posSide |-> posSide]

OpenSide(side) == IF side = "long" THEN "buy" ELSE "sell"

CloseSide(side) == IF side = "long" THEN "sell" ELSE "buy"

(***************************************************************************)
(* Strategy._notional_to_lots: sizes are counted in hundredths of a        *)
(* contract and ctVal is 0.1, so usd / px / ctVal is 1000 * usd / px.  The *)
(* price read raises, and nothing inside the function catches it.          *)
(***************************************************************************)
_notional_to_lots(usd, m) ==
    LET px == refresh_mid_call(m)
    IN  IF px.raised
        THEN [raised |-> TRUE, lots |-> 0]
        ELSE [raised |-> FALSE,
              lots |-> align_size(IF px.v > 0 THEN (1000 * usd) \div px.v ELSE 1,
                                  lotSz, minSz)]

(***************************************************************************)
(* Strategy._loss_pct, as the fraction num / den with den > 0.             *)
(***************************************************************************)
_loss_pct(side, px, avgPx) ==
    LET ref == IF first_entry_px[side] # 0 THEN first_entry_px[side] ELSE avgPx
    IN  IF ref <= 0 THEN [num |-> 0, den |-> 1]
        ELSE IF side = "long" THEN [num |-> ref - px, den |-> ref]
        ELSE [num |-> px - ref, den |-> ref]

\* DCA_MIN_PCT <= loss <= DCA_MAX_PCT
InDcaRange(loss) ==
    /\ 100 * loss.num >= DCA_MIN_PCT * loss.den
    /\ 100 * loss.num <= DCA_MAX_PCT * loss.den

\* a pass that never looks at the guard flag
guard_blocks_never(p) == FALSE

\* "if self.guard.paused: return" at the top of the DCA and trend passes
guard_blocks(p) == p

(***************************************************************************)
(* Strategy._dca_if_needed, the body of the loop over the sides.  st is    *)
(* the state so far; raised is set when an exception leaves the function.  *)
(* rev is the answer of dca_reverse_signal per side, pos2 the positions    *)
(* re-read for the exit test.                                              *)
(***************************************************************************)
dca_side(side, st, px, pos, pos2, rev, m) ==
    IF st.raised THEN st
    ELSE
    LET p == pos[side]
        avgPx == IF p.avgPx # 0 THEN p.avgPx ELSE px
        loss == _loss_pct(side, px, avgPx)
        in_flag == st.in_dca[side]
        want == st.dca_used[side] < DCA_TOTAL_CAP /\ rev[side]
        lots == _notional_to_lots(DCA_FIXED_NOTIONAL_USD, m)
        st1 == IF want /\ lots.lots > 0 /\ ~paused
               THEN [st EXCEPT !.ord = Append(@, place_market(OpenSide(side), lots.lots,
                                                              FALSE, "DCA", side)),
                               !.dca_used[side] = @ + 1]
               ELSE st
        avgPx2 == IF pos2[side].avgPx # 0 THEN pos2[side].avgPx ELSE px
    IN  IF ~in_flag /\ InDcaRange(loss)
        THEN [st EXCEPT !.in_dca[side] = TRUE, !.pause[side] = TRUE,
                        !.canc = @ \cup {<<"GRID", side>>}]
        ELSE IF ~in_flag THEN st
        ELSE IF want /\ lots.raised THEN [st EXCEPT !.raised = TRUE]
        ELSE IF ~pos2.ok THEN [st1 EXCEPT !.raised = TRUE]
        ELSE IF (side = "long" /\ px >= avgPx2) \/ (side = "short" /\ px <= avgPx2)
        THEN [st1 EXCEPT !.in_dca[side] = FALSE, !.pause[side] = FALSE,
                         !.dca_used[side] = 0]
        ELSE st1

_dca_if_needed(m, pos, pos2, rev) ==
    LET st0 == [in_dca |-> in_dca, dca_used |-> dca_used,
                pause |-> [long |-> pause_long, short |-> pause_short],
                ord |-> <<>>, canc |-> {}, raised |-> FALSE, exit |-> "done"]
        r == refresh_mid_call(m)
        px == IF r.raised THEN 0 ELSE r.v
    IN  IF ~DCA_ENABLE THEN [st0 EXCEPT !.exit = "disabled"]
        ELSE IF guard_blocks(paused) THEN [st0 EXCEPT !.exit = "guard_paused"]
        ELSE IF ~pos.ok THEN [st0 EXCEPT !.raised = TRUE]
        ELSE dca_side("short", dca_side("long", st0, px, pos, pos2, rev, m),
                      px, pos, pos2, rev, m)

(***************************************************************************)
(* Strategy._trend_add_if_needed, the body of the loop over the sides.     *)
(* filt is the answer of trend_filters_ok per side.  The price read of the *)
(* minimum-distance test raises, so cur_px is None and the test is         *)
(* skipped; the exception of _notional_to_lots ends the pass.              *)
(***************************************************************************)
trend_side(side, st, pos, filt, now, m) ==
    LET want == IF side = "long" THEN sig.bull /\ sig.vol_bull
                                 ELSE sig.bear /\ sig.vol_bear
        lots == _notional_to_lots(TREND_NOTIONAL_USD, m)
    IN  IF st.raised THEN st
        ELSE IF TREND_REQUIRE_PROFIT /\ ~(pos[side].pos > 0 /\ pos[side].uPnl > 0) THEN st
        ELSE IF ~want THEN st
        ELSE IF ~filt[side] THEN st
        ELSE IF in_dca[side] THEN st
        ELSE IF TREND_COOLDOWN_SEC > 0 /\ now - st.last_ts[side] < TREND_COOLDOWN_SEC THEN st
        ELSE IF TREND_DAILY_CAP > 0 /\ st.daily[side] >= TREND_DAILY_CAP THEN st
        ELSE IF lots.raised THEN [st EXCEPT !.raised = TRUE]
        ELSE IF lots.lots <= 0 THEN st
        ELSE [st EXCEPT !.ord = Append(@, place_market(OpenSide(side), lots.lots,
                                                       FALSE, "ADD", side)),
                        !.open[side] = @ + 1, !.daily[side] = @ + 1,
                        !.last_ts[side] = now]

\* today is the local day of the pass
_trend_add_if_needed(m, pos, filt, now, today) ==
    LET st0 == [day |-> _trend_day, daily |-> trend_daily_count, open |-> trend_open,
                last_ts |-> last_trend_ts, ord |-> <<>>, raised |-> FALSE,
                exit |-> "done"]
        st1 == IF _trend_day # today
               THEN [st0 EXCEPT !.day = today, !.daily = BothSides(0)]
               ELSE st0
    IN  IF guard_blocks(paused) THEN [st0 EXCEPT !.exit = "guard_paused"]
        ELSE IF ~pos.ok THEN [st1 EXCEPT !.raised = TRUE]
        ELSE trend_side("short", trend_side("long", st1, pos, filt, now, m),
                        pos, filt, now, m)

(***************************************************************************)
(* Strategy._manage_take_profit, the body of the loop over the sides.      *)
(* okx_api.close_position takes no posSide argument, so the call of the    *)
(* fallback raises TypeError, which is caught: nothing is closed.          *)
(***************************************************************************)
\* a take profit that never closes the whole position
tp_close_none(side, st, qty, reset) == st

tp_close_all(side, st, qty, reset) ==
    LET sz == (qty \div lotSz) * lotSz
    IN  IF sz < minSz THEN st
        ELSE IF reset
        THEN [st EXCEPT !.ord = Append(@, place_market(CloseSide(side), sz, TRUE, "TP", side)),
                        !.open[side] = 0, !.trail_active[side] = FALSE,
                        !.partial_done[side] = FALSE, !.peak[side] = 0]
        ELSE [st EXCEPT !.ord = Append(@, place_market(CloseSide(side), sz, TRUE, "TP", side)),
                        !.open[side] = 0]

\* a side without a position that keeps its take-profit state
tp_flat_keeps(side, st) == st

\* "if qty <= 0": the take-profit state of the side is reset
tp_flat(side, st) ==
    [st EXCEPT !.partial_done[side] = FALSE, !.trail_active[side] = FALSE,
               !.peak[side] = 0]

\* a peak that follows the PnL down
running_peak_last(peak, upl) == upl

\* "if upl > peak: peak = upl"
running_peak(peak, upl) == IF upl > peak THEN upl ELSE peak

\* a trailing stop that needs the floor and the percentage both
trail_hit_both(dd, peak) ==
    dd >= TP_TRAIL_USD /\ peak > 0 /\ 1000 * dd >= TP_TRAIL_PCT * peak

\* "dd >= trail_usd or dd_pct >= trail_pct", dd_pct being dd / peak for a
\* positive peak and 0 otherwise
trail_hit(dd, peak) ==
    dd >= TP_TRAIL_USD \/ (peak > 0 /\ 1000 * dd >= TP_TRAIL_PCT * peak)

tp_side(side, st, pos) ==
    LET qty == pos[side].pos
        upl == pos[side].uPnl
        has_trend == IF side = "long" THEN sig.bull ELSE sig.bear
        peak == running_peak(st.peak[side], upl)
        st1 == [st EXCEPT !.peak[side] = peak]
        part0 == ((qty * TP_PARTIAL_RATIO) \div (10 * lotSz)) * lotSz
        part == IF part0 < minSz THEN 0 ELSE part0
        dd == peak - upl
    IN  IF qty <= 0
        THEN tp_flat(side, st)
        ELSE IF ~st.partial_done[side] /\ upl >= TP_BASE_USD
        THEN IF ~has_trend
             THEN tp_close_all(side, st1, qty, FALSE)
             ELSE IF part > 0
             THEN [st1 EXCEPT !.ord = Append(@, place_market(CloseSide(side), part, TRUE,
                                                             "TP", side)),
                              !.partial_done[side] = TRUE, !.trail_active[side] = TRUE,
                              !.peak[side] = upl]
             ELSE st1
        ELSE IF st.trail_active[side] /\ trail_hit(dd, peak)
        THEN tp_close_all(side, st1, qty, TRUE)
        ELSE st1

_manage_take_profit(pos) ==
    LET st0 == [partial_done |-> partial_done, trail_active |-> trail_active,
                peak |-> trail_peak_upl, open |-> trend_open, ord |-> <<>>]
    IN  IF ~pos.ok THEN st0
        ELSE tp_side("short", tp_side("long", st0, pos), pos)

(***************************************************************************)
(* Strategy.takeover_positions and Strategy._update_first_entry_edges.  A  *)
(* position whose average price is missing makes the price read run, which *)
(* raises.                                                                 *)
(***************************************************************************)
takeover_positions(pos) ==
    IF ~pos.ok THEN first_entry_px
    ELSE LET long == IF pos.long.pos > 0 /\ pos.long.avgPx # 0
                     THEN pos.long.avgPx ELSE first_entry_px.long
             stop == pos.long.pos > 0 /\ pos.long.avgPx = 0
             short == IF ~stop /\ pos.short.pos > 0 /\ pos.short.avgPx # 0
                      THEN pos.short.avgPx ELSE first_entry_px.short
         IN  [long |-> long, short |-> short]

\* [raised, px]: the first-entry prices after the call, and whether it raised
_update_first_entry_edges(pos) ==
    IF ~pos.ok THEN [raised |-> TRUE, px |-> first_entry_px]
    ELSE LET raise_long == first_entry_px.long = 0 /\ pos.long.pos > 0 /\ pos.long.avgPx = 0
             long1 == IF first_entry_px.long = 0 /\ pos.long.pos > 0
                      THEN pos.long.avgPx ELSE first_entry_px.long
             raise_short == first_entry_px.short = 0 /\ pos.short.pos > 0
                            /\ pos.short.avgPx = 0
             short1 == IF first_entry_px.short = 0 /\ pos.short.pos > 0
                       THEN pos.short.avgPx ELSE first_entry_px.short
         IN  IF raise_long THEN [raised |-> TRUE, px |-> first_entry_px]
             ELSE IF raise_short
             THEN [raised |-> TRUE, px |-> [first_entry_px EXCEPT !.long = long1]]
             ELSE [raised |-> FALSE,
                   px |-> [long |-> IF pos.long.pos <= 0 THEN 0 ELSE long1,
                           short |-> IF pos.short.pos <= 0 THEN 0 ELSE short1]]

(***************************************************************************)
(* The control loop: run_strategy_once calls takeover_positions, and       *)
(* manage_forever calls _liqpx_guard_check once and then iterates          *)
(* guard.refresh, grid.place_missing, the policy phases on the signal      *)
(* cadence, and the sleep.  pc is the next call of the loop.  An exception *)
(* inside an iteration is caught at the bottom of the loop, which starts   *)
(* the next iteration without sleeping.  A step record keeps the market    *)
(* price and the positions of the exchange at the step, also for a step    *)
(* that does not read them.                                                *)
(***************************************************************************)
gfix == <<tickSz, center, buy_lv, sell_lv, missing_since, repost_count,
          last_pos_long, last_pos_short, last_flat_ts_long, last_flat_ts_short,
          orders, last, streak, reposts>>

riskvars == <<paused, _liq_paused, _last_ts, samples>>

dcavars == <<in_dca, dca_used, pause_long, pause_short>>

trendvars == <<_trend_day, trend_daily_count, last_trend_ts>>

tpvars == <<partial_done, trail_active, trail_peak_upl>>

\* time.time() is far from 0 when the loop starts: the first margin check
\* is not throttled, the first iteration runs the signal phase and the
\* cooldown of the trend adds has elapsed since the initial timestamp 0
StartDts == {TREND_COOLDOWN_SEC}

TakeoverWith(Positions) ==
    /\ pc = "takeover"
    /\ \E pos \in Positions, dt \in StartDts :
          /\ first_entry_px' = takeover_positions(pos)
          /\ clock' = clock + dt
          /\ slast' = [SStep("takeover") EXCEPT !.pos = pos]
    /\ pc' = "liq_check"
    /\ sorders' = <<>>
    /\ cancels' = {}
    /\ UNCHANGED <<gfix, passes, riskvars, dcavars, trendvars, tpvars, trend_open,
                   last_signal_ts, sig>>
    /\ UNCHANGED <<ran_ts, edgevars>>

LiqpxGuardCheckWith(Ms, Positions) ==
    /\ pc = "liq_check"
    /\ \E m \in Ms, pos \in Positions :
          /\ _liqpx_guard_check(m, pos)
          /\ slast' = [SStep("liq_check") EXCEPT !.m = m, !.pos = pos,
                                                 !.was_paused = paused]
    /\ pc' = "refresh"
    /\ sorders' = <<>>
    /\ UNCHANGED <<gfix, clock, passes, _last_ts, samples, dcavars, trendvars, tpvars,
                   trend_open, last_signal_ts, sig, first_entry_px>>
    /\ UNCHANGED <<ran_ts, edgevars>>

GuardRefreshWith(Answers, Ms, Positions) ==
    /\ pc = "refresh"
    /\ passes < MaxTicks
    /\ \E ans \in Answers, m \in Ms, pos \in Positions :
          MarginGuard_refresh(clock, ans, [SStep("refresh") EXCEPT !.m = m, !.pos = pos])
    /\ pc' = "place_missing"
    /\ sorders' = <<>>
    /\ UNCHANGED <<gfix, clock, passes, _liq_paused, dcavars, trendvars, tpvars,
                   trend_open, last_signal_ts, sig, first_entry_px>>
    /\ UNCHANGED <<ran_ts, edgevars>>

\* the ladder repair of the loop: the open-orders query answers, the price
\* is at the center and the account is flat.  The ladder of the loop is the
\* one the constructor leaves (the grid init of run_strategy_once failed), so
\* Grid.side_live_counts never sets _had_full_live and the rebuild of a
\* ladder with one side eaten, which follows place_missing, is skipped
LoopGridInputs ==
    {i \in PassInputs : i.q = "ok" /\ i.now_px = center /\ i.pos.long = 0 /\ i.pos.short = 0}

LoopPlaceMissing ==
    /\ pc = "place_missing"
    /\ \E i \in LoopGridInputs :
          place_missing(i.q, i.on_exchange, i.now_px, i.pos, clock, {})
    /\ pc' = "signal"
    /\ sorders' = <<>>
    /\ cancels' = {}
    /\ slast' = [SStep("place_missing") EXCEPT !.was_paused = paused]
    /\ UNCHANGED <<riskvars, in_dca, dca_used, trendvars, tpvars, trend_open,
                   last_signal_ts, sig, first_entry_px>>
    /\ UNCHANGED <<ran_ts, edgevars>>

\* a policy block that runs in every iteration
signal_due_always(now, last_ts) == TRUE

\* "now - last_signal_ts >= SIGNAL_REFRESH_SEC"
signal_due(now, last_ts) == now - last_ts >= SIGNAL_REFRESH_SEC

\* the signal cadence, resonance and _update_first_entry_edges
SignalRefreshWith(Sigs, Positions) ==
    /\ pc = "signal"
    /\ IF signal_due(clock, last_signal_ts)
       THEN \E sg \in Sigs, pos \in Positions :
            \E r \in {_update_first_entry_edges(pos)} :
               /\ sig' = sg
               /\ last_signal_ts' = clock
               /\ first_entry_px' = r.px
               /\ pc' = IF r.raised THEN "refresh" ELSE "dca"
               /\ slast' = [SStep("signal") EXCEPT !.pos = pos, !.was_paused = paused,
                                !.exit = IF r.raised THEN "raised" ELSE "done"]
       ELSE /\ pc' = "sleep"
            /\ slast' = [SStep("signal") EXCEPT !.was_paused = paused, !.exit = "skipped"]
            /\ UNCHANGED <<sig, last_signal_ts, first_entry_px>>
    /\ sorders' = <<>>
    /\ cancels' = {}
    /\ UNCHANGED <<gfix, clock, passes, riskvars, dcavars, trendvars, tpvars, trend_open>>
    /\ UNCHANGED <<ran_ts, edgevars>>

\* answers of dca_reverse_signal and of trend_filters_ok, per side
SideAnswers == {BothSides(FALSE), BothSides(TRUE)}

DcaPassWith(Ms, Positions) ==
    /\ pc = "dca"
    /\ \E m \in Ms, pos \in Positions, rev \in SideAnswers :
       \E pos2 \in IF \E sd \in Sides : in_dca[sd] THEN Positions ELSE {pos} :
       \E r \in {_dca_if_needed(m, pos, pos2, rev)} :
          /\ in_dca' = r.in_dca
          /\ dca_used' = r.dca_used
          /\ pause_long' = r.pause.long
          /\ pause_short' = r.pause.short
          /\ sorders' = r.ord
          /\ cancels' = r.canc
          /\ pc' = IF r.raised THEN "refresh" ELSE "trend"
          /\ slast' = [SStep("dca") EXCEPT !.m = m, !.pos = pos, !.was_paused = paused,
                           !.exit = IF r.raised THEN "raised" ELSE r.exit]
    /\ UNCHANGED <<gfix, clock, passes, riskvars, trendvars, tpvars, trend_open,
                   last_signal_ts, sig, first_entry_px>>
    /\ ran_ts' = [ran_ts EXCEPT !["dca"] = clock]
    /\ UNCHANGED edgevars

\* the local days a pass can run in
Days == {0, 1}

TrendPassWith(Ms, Positions) ==
    /\ pc = "trend"
    /\ \E m \in Ms, pos \in Positions, filt \in SideAnswers :
       \E today \in {d \in Days : d >= _trend_day} :
       \E r \in {_trend_add_if_needed(m, pos, filt, clock, today)} :
          /\ _trend_day' = r.day
          /\ trend_daily_count' = r.daily
          /\ trend_open' = r.open
          /\ last_trend_ts' = r.last_ts
          /\ sorders' = r.ord
          /\ slast' = [SStep("trend") EXCEPT !.m = m, !.pos = pos, !.was_paused = paused,
                           !.filt = filt,
                           !.exit = IF r.raised THEN "raised" ELSE r.exit]
    /\ pc' = "tp"
    /\ cancels' = {}
    /\ UNCHANGED <<gfix, clock, passes, riskvars, dcavars, tpvars,
                   last_signal_ts, sig, first_entry_px>>
    /\ ran_ts' = [ran_ts EXCEPT !["trend"] = clock]
    /\ UNCHANGED edgevars

\* what okx_api.place_market returns: an order id, or "" when both of its
\* attempts failed
OrderIds == {"", "id"}

TakeProfitPassWith(Positions) ==
    /\ pc = "tp"
    /\ \E pos \in Positions :
       \E r \in {_manage_take_profit(pos)} :
       \E ret \in [DOMAIN r.ord -> OrderIds] :
          /\ partial_done' = r.partial_done
          /\ trail_active' = r.trail_active
          /\ trail_peak_upl' = r.peak
          /\ trend_open' = r.open
          /\ sorders' = r.ord
          /\ slast' = [SStep("tp") EXCEPT !.pos = pos, !.was_paused = paused,
                           !.exit = IF pos.ok THEN "done" ELSE "raised",
                           !.tp0 = [partial_done |-> partial_done,
                                    trail_active |-> trail_active,
                                    peak |-> trail_peak_upl],
                           !.ret = ret]
    /\ pc' = "sleep"
    /\ cancels' = {}
    /\ UNCHANGED <<gfix, clock, passes, riskvars, dcavars, trendvars,
                   last_signal_ts, sig, first_entry_px>>
    /\ ran_ts' = [ran_ts EXCEPT !["tp"] = clock]
    /\ UNCHANGED edgevars

Sleep ==
    /\ pc = "sleep"
    /\ \E dt \in TickDts : clock' = clock + dt
    /\ pc' = "refresh"
    /\ sorders' = <<>>
    /\ cancels' = {}
    /\ slast' = [SStep("sleep") EXCEPT !.was_paused = paused]
    /\ UNCHANGED <<gfix, passes, riskvars, dcavars, trendvars, tpvars, trend_open,
                   last_signal_ts, sig, first_entry_px>>
    /\ UNCHANGED <<ran_ts, edgevars>>

(***************************************************************************)
(* The loop with a varying margin ratio and liquidation distance, and no   *)
(* signal: the account holds one long position or none.                    *)
(***************************************************************************)
Ratios == {900, 950, 1100, 1250, 1300}

MarginAnswers == [ok : {TRUE}, ratio : Ratios] \cup {[ok |-> FALSE, ratio |-> 0]}

\* no position, a positions query that raises, or a long position entered at
\* 100 with its liquidation price at 50
RiskPositions ==
    {FlatAccount, FailedSnapshot, Snapshot(Position(1, 100, 50, -5), NoPosition)}

Takeover == TakeoverWith(RiskPositions)

LiqpxGuardCheck == LiqpxGuardCheckWith(Mids, RiskPositions)

GuardRefresh == GuardRefreshWith(MarginAnswers, Mids, RiskPositions)

SignalRefreshQuiet == SignalRefreshWith({NoSignal}, {FlatAccount})

DcaPassQuiet == DcaPassWith({300}, {FlatAccount})

TrendPassQuiet == TrendPassWith({300}, {FlatAccount})

TakeProfitPassQuiet == TakeProfitPassWith({FlatAccount})

NextRisk ==
    \/ Takeover
    \/ LiqpxGuardCheck
    \/ GuardRefresh
    \/ LoopPlaceMissing
    \/ SignalRefreshQuiet
    \/ DcaPassQuiet
    \/ TrendPassQuiet
    \/ TakeProfitPassQuiet
    \/ Sleep

SpecRisk == Init /\ [][NextRisk]_vars

(***************************************************************************)
(* The loop with signals and positions in profit and in loss: the margin   *)
(* ratio is either below stop or above resume, the liquidation price far.  *)
(***************************************************************************)
Sigs == {NoSignal,
         [bull |-> TRUE, bear |-> FALSE, vol_bull |-> TRUE, vol_bear |-> FALSE],
         [bull |-> FALSE, bear |-> TRUE, vol_bull |-> FALSE, vol_bear |-> TRUE]}

\* no position, a positions query that raises, a long position of 1 or 4
\* lots entered at 100, in loss or in profit, or a short position of 4 lots
\* entered at 100 in profit
PolicyPositions ==
    {FlatAccount, FailedSnapshot}
    \cup {Snapshot(Position(q, 100, 50, upl), NoPosition) : q \in {1, 4}, upl \in {-5, 6}}
    \cup {Snapshot(NoPosition, Position(4, 100, 150, 6))}

PolicyAnswers == [ok : {TRUE}, ratio : {900, 1300}]

TakeoverPolicy == TakeoverWith(PolicyPositions)

LiqpxGuardCheckFar == LiqpxGuardCheckWith({300}, {FlatAccount})

GuardRefreshPolicy == GuardRefreshWith(PolicyAnswers, {300}, {FlatAccount})

SignalRefresh == SignalRefreshWith(Sigs, PolicyPositions)

DcaPass == DcaPassWith(Mids, PolicyPositions)

TrendPass == TrendPassWith(Mids, PolicyPositions)

TakeProfitPass == TakeProfitPassWith(PolicyPositions)

NextPolicy ==
    \/ TakeoverPolicy
    \/ LiqpxGuardCheckFar
    \/ GuardRefreshPolicy
    \/ LoopPlaceMissing
    \/ SignalRefresh
    \/ DcaPass
    \/ TrendPass
    \/ TakeProfitPass
    \/ Sleep

SpecPolicy == Init /\ [][NextPolicy]_vars

(***************************************************************************)
(* The loop with a position whose unrealized PnL rises and falls: the      *)
(* take-profit pass sees no position, a long position of 4 lots, a short   *)
(* position of 4 lots, or both sides open; the other phases see a flat     *)
(* account, the margin ratio stays above resume.  PnL is in tenths of a    *)
(* USD: 0.5, 0.6, 99.5, 99.9 and 100.                                      *)
(***************************************************************************)
TrailPnls == {5, 6, 995, 999, 1000}

TrailPositions ==
    {FlatAccount}
    \cup {Snapshot(Position(4, 100, 50, upl), NoPosition) : upl \in TrailPnls}
    \cup {Snapshot(NoPosition, Position(4, 100, 150, 6)),
          Snapshot(Position(4, 100, 50, 6), Position(4, 100, 150, 5))}

TakeoverFlat == TakeoverWith({FlatAccount})

GuardRefreshCalm == GuardRefreshWith({[ok |-> TRUE, ratio |-> 1300]}, {300}, {FlatAccount})

SignalRefreshTrail == SignalRefreshWith(Sigs, {FlatAccount})

TakeProfitPassTrail == TakeProfitPassWith(TrailPositions)

NextTrail ==
    \/ TakeoverFlat
    \/ LiqpxGuardCheckFar
    \/ GuardRefreshCalm
    \/ LoopPlaceMissing
    \/ SignalRefreshTrail
    \/ DcaPassQuiet
    \/ TrendPassQuiet
    \/ TakeProfitPassTrail
    \/ Sleep

SpecTrail == Init /\ [][NextTrail]_vars

(***************************************************************************)
(* Vocabulary of the properties.  They are read in the state a pass leaves *)
(* behind: last and orders describe that pass, clock is its time.          *)
(***************************************************************************)
\* the latest step was a place_missing pass that got past the orders query
PassRan == last.op = "place_missing" /\ last.q # "raise"

\* ladder levels absent from the live set the pass worked with
Missing == LadderPrices \ last.live

SubmittedFor(p) == \E i \in DOMAIN orders : orders[i].cmp = p

PosSideOf(order_side) == IF order_side = "buy" THEN "long" ELSE "short"

Adjacent(p, q) ==
    /\ p \in LadderPrices
    /\ q \in LadderPrices
    /\ Abs(IndexOf(_full_ladder, p) - IndexOf(_full_ladder, q)) = 1

\* the price's repost window is open and used up
WindowFull(p) ==
    /\ Has(repost_count, p)
    /\ repost_count[p][2] >= repost_max
    /\ clock - repost_count[p][1] < ttl_sec

FlatNow(side) ==
    IF side = "long"
    THEN last_flat_ts_long # 0 /\ clock - last_flat_ts_long <= FLAT_WINDOW_SEC
    ELSE last_flat_ts_short # 0 /\ clock - last_flat_ts_short <= FLAT_WINDOW_SEC

HighestBuy == cmp_px("long", center - grid_step)

LowestSell == cmp_px("short", center + grid_step)

(***************************************************************************)
(* C1: every order is submitted at the effective price of its level, the   *)
(* price the level is compared at against the live set.                    *)
(***************************************************************************)
C1_SubmittedAtEffectivePrice ==
    \A i \in DOMAIN orders :
        orders[i].px = _effective_limit_px(orders[i].side, orders[i].raw)

(***************************************************************************)
(* C2: a place_missing pass whose live set, as answered by the exchange,   *)
(* holds the effective price of every ladder level submits no order,       *)
(* whatever the timers, counters, pause flags, flat edges and price.       *)
(***************************************************************************)
C2_FullLadderNoOrders ==
    (PassRan /\ last.q = "ok" /\ LadderPrices \subseteq last.live) => orders = <<>>

\* a full live set read within 60 s of a flat edge, with repost counters stored
C2_FullLadderSeen ==
    /\ PassRan /\ last.q = "ok"
    /\ LadderPrices # {} /\ LadderPrices \subseteq last.live
    /\ FlatNow("long")
    /\ repost_count # EmptyDict
    /\ orders = <<>>

(***************************************************************************)
(* C5: a missing level with a missing neighbour in the unified ladder is   *)
(* submitted in the same pass unless its side is paused or its repost      *)
(* window is used up.                                                      *)
(***************************************************************************)
C5_NeighbourGapReposted ==
    PassRan =>
        \A p \in Missing :
            ( /\ \E q \in Missing : Adjacent(p, q)
              /\ ~PauseFlag(SideOfPx(p))
              /\ ~SubmittedFor(p) )
            => WindowFull(p)

\* only the highest buy and the lowest sell are missing, no flat edge: both
\* are submitted
C5_CrossSideGapReposted ==
    /\ PassRan
    /\ Missing = {HighestBuy, LowestSell}
    /\ ~FlatNow("long") /\ ~FlatNow("short")
    /\ SubmittedFor(HighestBuy) /\ SubmittedFor(LowestSell)

C10_FailedQueryIsNoOp ==
    [][(last'.op = "place_missing" /\ last'.q # "ok")
       => (orders' = <<>> /\ missing_since' = missing_since
                          /\ repost_count' = repost_count)]_vars

(***************************************************************************)
(* C7: after a pass with the price far_steps grid steps or more from a     *)
(* level that had a missing timer or a repost counter, the level keeps no  *)
(* timer and no counter recorded before that pass.                         *)
(***************************************************************************)
C7_FarLevelKeepsNothing ==
    [][(last'.op = "place_missing" /\ last'.q # "raise")
       => \A p \in (DOMAIN missing_since) \cup (DOMAIN repost_count) :
             FarFrom(last'.now_px, p)
             => /\ Has(missing_since', p) => missing_since'[p] = clock'
                /\ Has(repost_count', p) => repost_count'[p][1] = clock']_vars

(***************************************************************************)
(* C4: when exactly one level is missing, its side is not paused and no    *)
(* flat edge lies within 60 s, no order is submitted for it in a pass that *)
(* runs less than ttl_sec after the pass that first found it missing.      *)
(***************************************************************************)
C4_SingleGapWaitsForTtl ==
    PassRan =>
        \A p \in Missing :
            ( /\ Missing = {p}
              /\ ~PauseFlag(SideOfPx(p))
              /\ ~FlatNow("long") /\ ~FlatNow("short")
              /\ clock - streak[p].since < ttl_sec )
            => ~SubmittedFor(p)

\* a pass later than the one that first found the single gap, still inside
\* the TTL, no pause, no flat edge: nothing submitted
C4_SingleGapStillWaiting ==
    /\ PassRan
    /\ \E p \in Missing :
          /\ Missing = {p}
          /\ ~pause_long /\ ~pause_short
          /\ ~FlatNow("long") /\ ~FlatNow("short")
          /\ clock - streak[p].since > 0
          /\ clock - streak[p].since < ttl_sec
          /\ Has(missing_since, p)
    /\ orders = <<>>

C3_RepostsPerWindowCapped ==
    \A p \in DOMAIN reposts : reposts[p].n <= repost_max

(***************************************************************************)
(* C3 amended: the same for a price whose counter no far-away reset has    *)
(* dropped.                                                                *)
(***************************************************************************)
C3_RepostsCappedUnlessFarReset ==
    \A p \in DOMAIN reposts : ~reposts[p].far => reposts[p].n <= repost_max

\* a price with repost_max reposts in its window is missing next to a
\* missing neighbour, and the pass does not submit it
C3_AttemptSuppressed ==
    /\ PassRan
    /\ \E p \in Missing :
          /\ Has(reposts, p) /\ ~reposts[p].far
          /\ reposts[p].n = repost_max
          /\ clock > reposts[p].start
          /\ \E q \in Missing : Adjacent(p, q)
          /\ ~SubmittedFor(p)

\* the lowest buy level, the first the pass visits
LowestBuy == cmp_px("long", center - grid_step * levels)

(***************************************************************************)
(* C31: in a place_missing pass in which the submission of a level returns *)
(* no order id, every other missing level is still decided and submitted   *)
(* as in any pass (a missing level with a missing neighbour on an unpaused *)
(* side is submitted unless its repost window is used up), and the failed  *)
(* level keeps its missing timer and its repost counter; in the pass after *)
(* a failed submission the level, still missing, is submitted again under  *)
(* the same rule, its window counting the failed attempt.                  *)
(***************************************************************************)
C31_FailedSubmissionDoesNotAbort ==
    PassRan =>
        /\ \A p \in Missing :
              ( /\ last.failed # {} \/ p \in last.failed_before
                /\ \E q \in Missing : Adjacent(p, q)
                /\ ~PauseFlag(SideOfPx(p))
                /\ ~SubmittedFor(p) )
              => WindowFull(p)
        /\ \A p \in last.failed :
              /\ Has(missing_since, p)
              /\ Has(repost_count, p)
              /\ repost_count[p][2] <= repost_max

\* nothing rests on the exchange, the submission of the lowest buy level,
\* the first of the pass, returns no order id: all four levels are submitted
C31_LaterLevelsSubmitted ==
    /\ PassRan /\ last.live = {}
    /\ last.failed = {LowestBuy}
    /\ \A p \in LadderPrices : SubmittedFor(p)
    /\ Has(missing_since, LowestBuy) /\ Has(repost_count, LowestBuy)

(***************************************************************************)
(* Properties of the risk guard and of the strategy layer.  They are read  *)
(* in the state a step of the control loop leaves: slast is the step and   *)
(* what it read, sorders the market orders it submitted.                   *)
(***************************************************************************)
\* the guard flag before the i-th evaluated margin sample
FlagBefore(i) == IF i = 1 THEN FALSE ELSE samples[i - 1].paused

(***************************************************************************)
(* C11: over every sequence of margin-ratio samples the guard is paused    *)
(* after a sample at or below the stop threshold, stays paused after every *)
(* later sample below the resume threshold, and is not paused after a      *)
(* sample at or above the resume threshold (nor after a sample above stop  *)
(* while it was not paused).                                               *)
(***************************************************************************)
C11_MarginHysteresis ==
    \A i \in 1..Len(samples) :
        samples[i].paused = (\/ samples[i].ratio <= MARGIN_STOP_PCT
                             \/ FlagBefore(i) /\ samples[i].ratio < MARGIN_RESUME_PCT)

\* the samples 1300, 900, 950, 1250: not paused, paused, paused, resumed
C11_SampleSequenceSeen ==
    samples = << [ratio |-> 1300, paused |-> FALSE], [ratio |-> 900, paused |-> TRUE],
                 [ratio |-> 950, paused |-> TRUE], [ratio |-> 1250, paused |-> FALSE] >>

\* the distance between the market price and the liquidation price of a side
LiqDistance(m, d) == Abs(m - d.liqPx)

\* some side with an open position is within the stop distance
LiqTooClose(m, pos) ==
    \E sd \in Sides : pos[sd].pos > 0 /\ LiqDistance(m, pos[sd]) <= LIQPX_STOP_USD

\* every side with an open position is at the resume distance or farther
LiqAllSafe(m, pos) ==
    \A sd \in Sides : pos[sd].pos > 0 => LiqDistance(m, pos[sd]) >= LIQPX_RESUME_USD

\* the latest step was a liquidation-distance check that read the positions
LiqCheckRan == slast.op = "liq_check" /\ slast.pos.ok

(***************************************************************************)
(* C14: a liquidation-distance check at which some side with an open       *)
(* position is within stopDistance of its liquidation price leaves the     *)
(* pause set, and the liquidation pause is cleared only by a check at      *)
(* which every side with an open position is at resumeDistance or farther. *)
(***************************************************************************)
C14_LiqGuardPausesAndResumes ==
    [][/\ (LiqCheckRan' /\ LiqTooClose(slast'.m, slast'.pos)) => (paused' /\ _liq_paused')
       /\ (_liq_paused /\ ~_liq_paused')
             => (LiqCheckRan' /\ LiqAllSafe(slast'.m, slast'.pos))]_vars

\* what the code does instead: the liquidation flag is never set
LiqFlagNeverSet == ~_liq_paused

(***************************************************************************)
(* C15: the risk refresh of a control-loop iteration evaluates the margin  *)
(* guard and the liquidation-distance guard before the ladder repair: when *)
(* the liquidation distance is at or below stopDistance at the refresh of  *)
(* an iteration, the pause is set when the refresh is done.                *)
(***************************************************************************)
C15_RefreshChecksLiqDistance ==
    (slast.op = "refresh" /\ slast.pos.ok /\ LiqTooClose(slast.m, slast.pos)) => paused

(***************************************************************************)
(* C16: a DCA pass or a trend-add pass that starts while the guard flag is *)
(* set submits no ADD order and no DCA order: it returns at the test of    *)
(* the flag, before anything else.                                         *)
(***************************************************************************)
C16_NoAddWhilePaused ==
    (slast.op \in {"dca", "trend"} /\ slast.was_paused)
        => /\ \A i \in DOMAIN sorders : sorders[i].tag \notin {"ADD", "DCA"}
           /\ slast.exit = "guard_paused"

\* a trend pass under a set flag, with the bull signal, its volume
\* confirmation and a long position in profit
C16_PausedPassWithSignal ==
    /\ slast.op = "trend" /\ slast.was_paused
    /\ sig.bull /\ sig.vol_bull
    /\ slast.pos.long.pos > 0 /\ slast.pos.long.uPnl > 0
    /\ sorders = <<>>

\* the loss of a side at market price m against its first-entry price lies
\* in [DCA_MIN_PCT, DCA_MAX_PCT]
LossInWindow(side, m) ==
    LET ref == first_entry_px[side]
        num == IF side = "long" THEN ref - m ELSE m - ref
    IN  /\ ref > 0
        /\ 100 * num >= DCA_MIN_PCT * ref
        /\ 100 * num <= DCA_MAX_PCT * ref

\* the DCA window is never open and no slot is ever used
DcaNeverActive == \A sd \in Sides : ~in_dca[sd] /\ dca_used[sd] = 0

(***************************************************************************)
(* C18: in a DCA pass that runs to its end, a side that holds a position   *)
(* and whose window is not open gets it opened exactly when its loss, from *)
(* the current price against the first-entry price, lies in [dcaMinPct,    *)
(* dcaMaxPct]; when the window opens the pause flag of the side is set and *)
(* the GRID orders of the side are cancelled.                              *)
(***************************************************************************)
C18_WindowOpensOnLoss ==
    [][(slast'.op = "dca" /\ slast'.exit = "done")
          => \A sd \in Sides :
                (~in_dca[sd] /\ slast'.pos[sd].pos > 0)
                   => /\ in_dca'[sd] <=> LossInWindow(sd, slast'.m)
                      /\ in_dca'[sd]
                            => /\ IF sd = "long" THEN pause_long' ELSE pause_short'
                               /\ <<"GRID", sd>> \in cancels']_vars

\* the trend signal of a side
HasTrend(side) == IF side = "long" THEN sig.bull ELSE sig.bear

\* the configured fraction of a quantity, rounded down to the lot size
FractionLots(qty) == ((qty * TP_PARTIAL_RATIO) \div (10 * lotSz)) * lotSz

\* the order list ords holds a reduce-only market close of sz on the side
ReduceOnlyClose(ords, side, sz) ==
    \E i \in DOMAIN ords :
        ords[i] = [side |-> IF side = "long" THEN "sell" ELSE "buy", sz |-> sz,
                   reduce_only |-> TRUE, tag |-> "TP", posSide |-> side]

\* the order list ords holds an order on the position side
OrderFor(ords, side) == \E i \in DOMAIN ords : ords[i].posSide = side

\* the take-profit pass of this step finds the side with a position whose PnL
\* is at the base threshold or above, and partialDone not yet set
TpTriggered(side, step) ==
    /\ step.op = "tp" /\ step.pos.ok
    /\ step.pos[side].pos > 0
    /\ step.pos[side].uPnl >= TP_BASE_USD
    /\ ~partial_done[side]

TpPassOn(side) == slast.op = "tp" /\ slast.pos.ok /\ slast.pos[side].pos > 0

\* the running peak of the side at that pass: the peak it started from or the
\* PnL it read, whichever is larger
RunningPeak(side) ==
    IF slast.pos[side].uPnl > slast.tp0.peak[side]
    THEN slast.pos[side].uPnl ELSE slast.tp0.peak[side]

\* the drawdown of the PnL from the running peak
Drawdown(side) == RunningPeak(side) - slast.pos[side].uPnl

\* the drawdown is at least the USD floor
FloorReached(side) == Drawdown(side) >= TP_TRAIL_USD

\* the drawdown is at least the configured fraction (per mille) of the peak
PctReached(side) ==
    RunningPeak(side) > 0 /\ 1000 * Drawdown(side) >= TP_TRAIL_PCT * RunningPeak(side)

TrailClosed(side) == slast.tp0.trail_active[side] /\ ~trail_active[side]

\* the pass armed trailing on the side
TrailArmed(side) == ~slast.tp0.trail_active[side] /\ trail_active[side]

(***************************************************************************)
(* C22 as stated: for each side the peak after a take-profit pass that     *)
(* finds the position open, and does not close it by the trailing stop, is *)
(* not below the peak before the pass, whatever the PnL, the trend signal  *)
(* and the outcome of the orders.                                          *)
(***************************************************************************)
C22_PeakNeverDecreases ==
    \A sd \in Sides :
        (TpPassOn(sd) /\ ~TrailClosed(sd)) => trail_peak_upl[sd] >= slast.tp0.peak[sd]

(***************************************************************************)
(* C22 amended: the same, except in the pass that arms trailing, which     *)
(* records the PnL of that pass as the peak, also when a higher peak was   *)
(* tracked before trailing was armed.                                      *)
(***************************************************************************)
C22_PeakNeverDecreasesOnceArmed ==
    \A sd \in Sides :
        (TpPassOn(sd) /\ ~TrailClosed(sd))
           => IF TrailArmed(sd)
              THEN trail_peak_upl[sd] = slast.pos[sd].uPnl
              ELSE trail_peak_upl[sd] >= slast.tp0.peak[sd]

\* trailing armed with the peak at 100 USD, the PnL falls to 99.9: nothing is
\* closed and the peak stays at 100
C22_PeakKeptWhilePnlFalls ==
    /\ TpPassOn("long") /\ slast.tp0.trail_active.long /\ trail_active.long
    /\ slast.tp0.peak.long = 1000 /\ slast.pos.long.uPnl = 999
    /\ trail_peak_upl.long = 1000

AddOrders(ords, side) ==
    {i \in DOMAIN ords : ords[i].tag = "ADD" /\ ords[i].posSide = side}

\* the side has a position in profit in the snapshot of the step
InProfit(step, side) == step.pos.ok /\ step.pos[side].pos > 0 /\ step.pos[side].uPnl > 0

\* the resonance signal of the direction, with its volume confirmation
TrendWanted(side) == IF side = "long" THEN sig.bull /\ sig.vol_bull
                                      ELSE sig.bear /\ sig.vol_bear

\* the trend adds counted for the side in the local day of the pass that is
\* being taken: 0 when the pass is the first of a new day
CountToday(side) == IF _trend_day' # _trend_day THEN 0 ELSE trend_daily_count[side]

\* every gate of the trend add holds for the side in the pass being taken:
\* guard not paused, signal and volume, momentum filter, position in profit,
\* no open DCA window, cooldown elapsed, daily count under the cap (no add
\* was made before, so there is no last add price to keep a distance from)
AllTrendGates(side) ==
    /\ slast'.op = "trend" /\ ~paused
    /\ TrendWanted(side) /\ slast'.filt[side]
    /\ InProfit(slast', side)
    /\ ~in_dca[side]
    /\ clock - last_trend_ts[side] >= TREND_COOLDOWN_SEC
    /\ CountToday(side) < TREND_DAILY_CAP

(***************************************************************************)
(* C26: a trend pass submits an ADD order for a side only if the DCA       *)
(* window of the side is not open and the side has a position with         *)
(* quantity > 0 and unrealized PnL > 0; and a pass in which every gate     *)
(* holds for a side submits exactly one ADD order for that side and        *)
(* increments its dailyCount.                                              *)
(***************************************************************************)
C26_TrendAddWhenAllGatesHold ==
    [][\A sd \in Sides :
          /\ (slast'.op = "trend" /\ AddOrders(sorders', sd) # {})
                => (~in_dca[sd] /\ (TREND_REQUIRE_PROFIT => InProfit(slast', sd)))
          /\ AllTrendGates(sd)
                => /\ Cardinality(AddOrders(sorders', sd)) = 1
                   /\ trend_daily_count'[sd] = CountToday(sd) + 1]_vars

\* what the code does instead: no trend add is ever submitted or counted
TrendNeverAdds ==
    /\ \A i \in DOMAIN sorders : sorders[i].tag # "ADD"
    /\ trend_daily_count = BothSides(0) /\ trend_open = BothSides(0)
    /\ last_trend_ts = BothSides(0)

(***************************************************************************)
(* The loop with failing position queries and a keyboard interrupt.  The   *)
(* interrupt is delivered between two calls of the loop: manage_forever    *)
(* breaks out of the loop and returns, run_strategy_once returns, and      *)
(* main.run_once returns to run_daemon, which logs and leaves.  None of    *)
(* them cancels an order: okx_api.cancel_all is called by main.run_once    *)
(* before the strategy starts, and nowhere else.                           *)
(***************************************************************************)
LoopPcs == {"refresh", "place_missing", "signal", "dca", "trend", "tp", "sleep"}

Interrupt ==
    /\ pc \in LoopPcs
    /\ pc' = "exited"
    /\ slast' = [SStep("interrupt") EXCEPT !.was_paused = paused, !.exit = pc]
    /\ sorders' = <<>>
    /\ cancels' = {}
    /\ UNCHANGED <<gfix, clock, passes, riskvars, dcavars, trendvars, tpvars, trend_open,
                   last_signal_ts, sig, first_entry_px>>
    /\ UNCHANGED <<ran_ts, edgevars>>

LoopPositions == {FlatAccount, FailedSnapshot}

SignalRefreshLoop == SignalRefreshWith({NoSignal}, LoopPositions)

DcaPassLoop == DcaPassWith({300}, LoopPositions)

TrendPassLoop == TrendPassWith({300}, LoopPositions)

TakeProfitPassLoop == TakeProfitPassWith(LoopPositions)

NextLoop ==
    \/ TakeoverFlat
    \/ LiqpxGuardCheckFar
    \/ GuardRefreshCalm
    \/ LoopPlaceMissing
    \/ SignalRefreshLoop
    \/ DcaPassLoop
    \/ TrendPassLoop
    \/ TakeProfitPassLoop
    \/ Sleep
    \/ Interrupt

SpecLoop == Init /\ [][NextLoop]_vars

\* the step before this one ended the iteration it belonged to: the sleep,
\* or a policy phase that raised
EndedIteration(step) ==
    \/ step.op = "sleep"
    \/ step.op \in {"signal", "dca"} /\ step.exit = "raised"

\* the call that precedes each call of an iteration
CalledAfter(op, step) ==
    CASE op = "refresh" -> step.op = "liq_check" \/ EndedIteration(step)
      [] op = "place_missing" -> step.op = "refresh"
      [] op = "signal" -> step.op = "place_missing"
      [] op = "dca" -> step.op = "signal" /\ step.exit = "done"
      [] op = "trend" -> step.op = "dca" /\ step.exit # "raised"
      [] op = "tp" -> step.op = "trend"
      [] op = "sleep" -> \/ step.op = "tp"
                         \/ step.op = "signal" /\ step.exit = "skipped"
      [] OTHER -> TRUE

\* the iteration of this step read the time at least the signal-refresh
\* interval after the iteration in which the phase last ran
IntervalElapsed(ph) == ran_ts[ph] < 0 \/ clock' - ran_ts[ph] >= SIGNAL_REFRESH_SEC

(***************************************************************************)
(* C28: every call of an iteration of the control loop directly follows    *)
(* the call before it in the order guard refresh, ladder repair, signal    *)
(* refresh, DCA, trend add, take profit, sleep, each call being one step   *)
(* that ends before the next begins; a policy phase (DCA, trend add, take  *)
(* profit) runs only in an iteration whose time is at least the            *)
(* signal-refresh interval after the time of the iteration in which that   *)
(* phase last ran.                                                         *)
(***************************************************************************)
C28_PhaseOrderAndCadence ==
    [][/\ CalledAfter(slast'.op, slast)
       /\ slast'.op \in PolicyPhases => IntervalElapsed(slast'.op)]_vars

\* the three policy phases run for the second time: the first run, a tick
\* later an iteration that skips them, and a signal-refresh interval after
\* that the iteration that runs them again
C28_SecondPolicyRun ==
    /\ slast.op = "tp"
    /\ \A ph \in PolicyPhases :
          ran_ts[ph] = TREND_COOLDOWN_SEC + TICK_REFRESH_SEC + SIGNAL_REFRESH_SEC

\* a cancellation of every open order of the instrument
SweepIssued == \E c \in cancels : c[1] = "ALL"

(***************************************************************************)
(* C29: when the control loop has been interrupted and the process leaves, *)
(* a cancellation sweep over the open orders has been issued.              *)
(***************************************************************************)
C29_SweepOnInterrupt == pc = "exited" => SweepIssued

(***************************************************************************)
(* The order gateway (src/okx_api.py): place_limit and place_market, in    *)
(* the definitions in force (the later ones of the module).  A client id   *)
(* is a hash of the fields of the order followed by _CL_COUNTER in base    *)
(* 36: for one order it is given by the counter.  One _req of the order    *)
(* endpoint is one submission; it answers with an order id or without one, *)
(* and raises when the API credentials are not configured.                 *)
(***************************************************************************)
\* the number of client ids before the rolling counter wraps (36^6 in the
\* source)
ClOrdIdSpace == 5

\* what fetch_order_by_clordid returns: {} or the order the exchange holds
Lookups ==
    {[ordId |-> "", state |-> ""]}
    \cup [ordId : {"id"}, state : {"live", "partially_filled", "filled", "canceled"}]

_make_clordid(counter) == (counter + 1) % ClOrdIdSpace

\* a gateway that takes no looked-up order for the one it submitted
found_never(od) == FALSE

\* "od.get("ordId") and st not in {"canceled", "filled"}"
found_live(od) == od.ordId # "" /\ od.state \notin {"canceled", "filled"}

\* _try_once: the order id of the attempt, "" when it failed
_try_once(post, od) ==
    IF post # "" THEN post
    ELSE IF found_live(od) THEN od.ordId
    ELSE ""

\* the body of a submission
OrderBody(ordType, clid) == [ordType |-> ordType, clOrdId |-> clid]

\* "_try_once(False) or _try_once(True)"
place_with_retry(ordType) ==
    \E creds \in BOOLEAN, post1 \in OrderIds, od1 \in Lookups,
       post2 \in OrderIds, od2 \in Lookups :
       LET clid0 == _make_clordid(_CL_COUNTER)
           r1 == _try_once(post1, od1)
           clid1 == _make_clordid(clid0)
           r2 == _try_once(post2, od2)
           look1 == IF post1 = "" THEN <<[clOrdId |-> clid0, od |-> od1]>> ELSE <<>>
           look2 == IF post2 = "" THEN <<[clOrdId |-> clid1, od |-> od2]>> ELSE <<>>
       IN  IF ~creds
           THEN /\ _CL_COUNTER' = clid0
                /\ posts' = <<>>
                /\ gw' = [ordType |-> ordType, post |-> <<>>, look |-> <<>>,
                          ret |-> "raised"]
           ELSE IF r1 # ""
           THEN /\ _CL_COUNTER' = clid0
                /\ posts' = <<OrderBody(ordType, clid0)>>
                /\ gw' = [ordType |-> ordType, post |-> <<post1>>, look |-> look1,
                          ret |-> r1]
           ELSE /\ _CL_COUNTER' = clid1
                /\ posts' = <<OrderBody(ordType, clid0), OrderBody(ordType, clid1)>>
                /\ gw' = [ordType |-> ordType, post |-> <<post1, post2>>,
                          look |-> look1 \o look2, ret |-> r2]

PlaceLimit ==
    /\ \E post_only \in BOOLEAN :
          place_with_retry(IF post_only THEN "post_only" ELSE "limit")
    /\ UNCHANGED <<gvars, svars, ran_ts, tuning, rebuildvars>>

PlaceMarket ==
    /\ place_with_retry("market")
    /\ UNCHANGED <<gvars, svars, ran_ts, tuning, rebuildvars>>

NextGateway == PlaceLimit \/ PlaceMarket

SpecGateway == Init /\ [][NextGateway]_vars

\* the latest gateway call returned
Returned == gw.ordType # "" /\ gw.ret # "raised"

\* the exchange holds the order, neither cancelled nor filled
FoundNonTerminal(od) == od.ordId = "id" /\ od.state \in {"live", "partially_filled"}

(***************************************************************************)
(* C27: a place_limit or place_market call sends at most two submissions.  *)
(* A first submission answered with an order id is the only one.  If it is *)
(* answered without one, the order is looked up by the client id of that   *)
(* submission; found in a non-terminal state, its id is returned and       *)
(* nothing more is submitted; otherwise exactly one more submission of the *)
(* same order is made under a client id different from the first, and the  *)
(* call returns the outcome of that attempt (an order id, or "" for        *)
(* failure).                                                               *)
(***************************************************************************)
C27_AtMostOneRetry ==
    /\ Len(posts) <= 2
    /\ Returned =>
          /\ Len(posts) >= 1
          /\ Len(gw.post) = Len(posts)
          /\ IF gw.post[1] # ""
             THEN Len(posts) = 1 /\ gw.ret = gw.post[1] /\ gw.look = <<>>
             ELSE /\ Len(gw.look) >= 1
                  /\ gw.look[1].clOrdId = posts[1].clOrdId
                  /\ IF FoundNonTerminal(gw.look[1].od)
                     THEN Len(posts) = 1 /\ gw.ret = gw.look[1].od.ordId
                     ELSE /\ Len(posts) = 2
                          /\ posts[2].ordType = posts[1].ordType
                          /\ posts[2].clOrdId # posts[1].clOrdId
                          /\ IF gw.post[2] # "" THEN gw.ret = gw.post[2]
                             ELSE /\ Len(gw.look) = 2
                                  /\ gw.look[2].clOrdId = posts[2].clOrdId
                                  /\ gw.ret = IF FoundNonTerminal(gw.look[2].od)
                                              THEN gw.look[2].od.ordId ELSE ""

\* a market order whose first submission is answered without an id and is
\* found filled: it is resubmitted once under another client id, and the
\* call returns the order id of the retry
C27_RetriedOnce ==
    /\ Returned /\ gw.ordType = "market"
    /\ gw.post = <<"", "id">> /\ gw.look[1].od.state = "filled"
    /\ Len(posts) = 2 /\ posts[1].clOrdId # posts[2].clOrdId
    /\ gw.ret = "id"

(***************************************************************************)
(* cfg.apply_tuning(cfg, mkt, acc, grid, guard).  The function assigns     *)
(* TREND_NOTIONAL_USD (l.275), which none of its global statements         *)
(* (l.249-264) names: the name is local to the function, and the           *)
(* right-hand side of that first assignment reads it as the default of     *)
(* cfg.get.  The call raises UnboundLocalError there, whatever the         *)
(* snapshot holds, before the grid keys are read (l.298-300) and before    *)
(* the comparison with the old step and levels (l.356).  The statements    *)
(* after l.275 are modelled as they are written: there the ladder would be *)
(* rebuilt by Grid.rebuild, which uses the step and the level count that   *)
(* Grid.__init__ copied from cfg (grid_sys.py l.27-28), not the new ones.  *)
(***************************************************************************)
\* configuration snapshots: the ladder step and the levels per side
Snapshots == [grid_step_usd : {grid_step, 20}, grid_levels_per_side : {levels, 3}]

\* l.275 reads the local TREND_NOTIONAL_USD before it is bound
reads_unbound_local == TRUE

ApplyTuning ==
    \E snap \in Snapshots, mid \in Centers :
       LET old_step == tuning.GRID_STEP_USD
           old_levels == tuning.GRID_LEVELS_PER_SIDE
           changed == snap.grid_step_usd # old_step \/ snap.grid_levels_per_side # old_levels
           call == [snap |-> snap, old_step |-> old_step, old_levels |-> old_levels,
                    GRID_STEP_USD |-> old_step, GRID_LEVELS_PER_SIDE |-> old_levels,
                    raised |-> TRUE, cancelled |-> FALSE, rebuilt |-> FALSE,
                    placed |-> FALSE]
       IN  /\ IF reads_unbound_local
              THEN /\ tuning' = call
                   /\ UNCHANGED gvars
              ELSE /\ tuning' = [call EXCEPT !.GRID_STEP_USD = snap.grid_step_usd,
                                    !.GRID_LEVELS_PER_SIDE = snap.grid_levels_per_side,
                                    !.raised = FALSE,
                                    !.cancelled = changed,
                                    !.rebuilt = changed /\ mid > 0,
                                    !.placed = changed /\ mid > 0 /\ ~paused]
                   /\ IF changed /\ mid > 0 THEN rebuild(mid) ELSE UNCHANGED gvars
           /\ UNCHANGED <<svars, ran_ts, _CL_COUNTER, posts, gw, rebuildvars>>

NextTuning == Rebuild \/ PlaceAll \/ ApplyTuning

SpecTuning == Init /\ [][NextTuning]_vars

\* the step applied a snapshot whose step or level count differs from the
\* configured one
AppliedChange ==
    /\ tuning' # tuning
    /\ \/ tuning'.snap.grid_step_usd # tuning'.old_step
       \/ tuning'.snap.grid_levels_per_side # tuning'.old_levels

\* the ladder after the step has the step and the level count of the snapshot
LadderOfSnapshot ==
    /\ Len(buy_lv') = tuning'.snap.grid_levels_per_side
    /\ Len(sell_lv') = tuning'.snap.grid_levels_per_side
    /\ \A i \in 1..Len(buy_lv') : buy_lv'[i][1] = center' - tuning'.snap.grid_step_usd * i
    /\ \A i \in 1..Len(sell_lv') : sell_lv'[i][1] = center' + tuning'.snap.grid_step_usd * i

(***************************************************************************)
(* C30: applying a configuration snapshot whose ladder step or level count *)
(* differs from the configured one cancels the grid orders and rebuilds    *)
(* the ladder with the step and the level count of the snapshot, and       *)
(* places it again unless the margin guard is paused.                      *)
(***************************************************************************)
C30_RebuildOnStepOrLevelChange ==
    [][AppliedChange
          => /\ tuning'.cancelled
             /\ tuning'.rebuilt /\ LadderOfSnapshot
             /\ paused \/ tuning'.placed]_vars

(***************************************************************************)
(* C32: a level that a place_missing pass finds missing while its side is  *)
(* paused has its missing timer recorded when the pass ends.               *)
(***************************************************************************)
C32_TimerRecordedWhilePaused ==
    PassRan =>
        \A p \in Missing : PauseFlag(SideOfPx(p)) => Has(missing_since, p)

(***************************************************************************)
(* C35: a place_missing pass submits at most one order per ladder level.   *)
(***************************************************************************)
C35_OneOrderPerLevel ==
    PassRan =>
        \A i, j \in DOMAIN orders : orders[i].cmp = orders[j].cmp => i = j

(***************************************************************************)
(* C37: the margin guard leaves paused only in a refresh that evaluated a  *)
(* ratio reported by the exchange, at or above the resume threshold; a     *)
(* failed or empty margin query never resumes it.                          *)
(***************************************************************************)
C37_ResumeOnlyOnReportedRatio ==
    [][(paused /\ ~paused')
         => /\ slast'.op = "refresh"
            /\ slast'.reported
            /\ slast'.ratio >= MARGIN_RESUME_PCT]_vars

(***************************************************************************)
(* C38: a place_missing pass whose positions query failed records no flat  *)
(* edge: neither side's flat-edge timestamp is the time of that pass.      *)
(***************************************************************************)
C38_FailedPositionsQueryNoFlatEdge ==
    (PassRan /\ last.pq = "http_fail")
        => /\ last_flat_ts_long # clock
           /\ last_flat_ts_short # clock

\* the exchange took the k-th submission of the latest gateway call: it
\* answered with an order id, or the lookup by the client id of that
\* submission found the order
AcceptedByExchange(k) ==
    \/ gw.post[k] # ""
    \/ \E j \in DOMAIN gw.look :
          gw.look[j].clOrdId = posts[k].clOrdId /\ gw.look[j].od.ordId # ""

(***************************************************************************)
(* C39: of the submissions of one place_limit or place_market call the     *)
(* exchange accepts at most one.                                           *)
(***************************************************************************)
C39_AtMostOneAccepted ==
    Returned => Cardinality({k \in DOMAIN posts : AcceptedByExchange(k)}) <= 1

(***************************************************************************)
(* The ladder with the orders of the engine resting on the exchange: every *)
(* submission is accepted at the price Account.place_order sent, nothing   *)
(* fills and nothing is cancelled, so the open-orders query answers with   *)
(* the orders submitted so far.                                            *)
(***************************************************************************)
\* number of grid calls explored with resting orders
MaxRestPasses == 4

\* Account.live_grid_prices: the prices of the open orders tagged GRID
live_grid_prices == {o.px : o \in resting}

PlaceAllResting ==
    /\ passes < MaxRestPasses
    /\ buy_lv # <<>>
    /\ place_all("ok", live_grid_prices)
    /\ resting' = resting \cup Range(orders')
    /\ UNCHANGED <<svars, ran_ts, _CL_COUNTER, posts, gw, tuning,
                   _had_full_live, last_rebuild_ts, rb>>

PlaceMissingResting ==
    /\ passes < MaxRestPasses
    /\ buy_lv # <<>>
    /\ \E dt \in Dts, now_px \in NowPxs :
          place_missing("ok", live_grid_prices, now_px,
                        get_positions("ok", [long |-> 0, short |-> 0]), clock + dt, {})
    /\ resting' = resting \cup Range(orders')
    /\ UNCHANGED <<svars, ran_ts, _CL_COUNTER, posts, gw, tuning,
                   _had_full_live, last_rebuild_ts, rb>>

NextRest == Rebuild \/ PlaceAllResting \/ PlaceMissingResting

SpecRest == Init /\ [][NextRest]_vars

\* place_all submitted an order for every level of the ladder and all rest
PlacedAllResting == LadderPrices \subseteq {o.cmp : o \in {r \in resting : r.via = "all"}}

(***************************************************************************)
(* C34: once place_all has submitted the whole ladder and every order      *)
(* rests on the exchange, with no fill and no cancellation, a              *)
(* place_missing pass submits no order.                                    *)
(***************************************************************************)
C34_FixedPointAfterPlaceAll ==
    (PassRan /\ PlacedAllResting) => orders = <<>>

(***************************************************************************)
(* The control loop with a built ladder.  run_strategy_once builds the     *)
(* ladder around the mid price and places it before manage_forever starts  *)
(* (strategy.py l.636-646); each iteration of the loop asks                *)
(* Grid.side_live_counts after place_missing and, when one side of the     *)
(* ladder has no live level, cancels the GRID orders, rebuilds the ladder  *)
(* and places it (l.555-577).  The open-orders query answers with the live *)
(* orders the exchange holds, which fills and cancellations change between *)
(* two queries.  Account.last_fill_px is None: nothing assigns it after    *)
(* Account.__init__ (account.py l.29), so the new center is the mid price, *)
(* which is positive once a ticker was read.                               *)
(***************************************************************************)
REBUILD_COOLDOWN_SEC == 12

\* Grid.rebuild: the levels around a center
levels_around(c) ==
    [buy |-> [i \in 1..levels |-> <<c - grid_step * i, BASE_SZ>>],
     sell |-> [i \in 1..levels |-> <<c + grid_step * i, BASE_SZ>>]]

buy_cmp == {cmp_px("long", buy_lv[i][1]) : i \in DOMAIN buy_lv}

sell_cmp == {cmp_px("short", sell_lv[i][1]) : i \in DOMAIN sell_lv}

\* Grid.side_live_counts over the live set: the counts it returns and
\* _had_full_live after the call
side_live_counts(live) ==
    LET live_b == Cardinality(buy_cmp \cap live)
        live_s == Cardinality(sell_cmp \cap live)
    IN  [live_b |-> live_b, live_s |-> live_s,
         had |-> IF buy_cmp # {} /\ sell_cmp # {}
                 THEN \/ _had_full_live
                      \/ live_b >= Cardinality(buy_cmp) /\ live_s >= Cardinality(sell_cmp)
                 ELSE _had_full_live]

\* a test that sees an eaten buy side only
buy_side_eaten(live_b, live_s) == live_s > 0 /\ live_b = 0

\* "(live_b + live_s) > 0 and (live_b == 0 or live_s == 0)"
one_side_eaten(live_b, live_s) == (live_b + live_s) > 0 /\ (live_b = 0 \/ live_s = 0)

rebuild_due(c, now) ==
    /\ c.had
    /\ one_side_eaten(c.live_b, c.live_s)
    /\ now - last_rebuild_ts >= REBUILD_COOLDOWN_SEC

\* Grid.rebuild(c) followed by Grid.place_all with nothing live
rebuild_and_place_all(c) ==
    LET lv == levels_around(c)
    IN  /\ center' = c
        /\ buy_lv' = lv.buy
        /\ sell_lv' = lv.sell
        /\ orders' = place_all_side("buy", lv.buy, 1, {})
                     \o place_all_side("sell", lv.sell, 1, {})
        /\ last' = Step("place_all")
        /\ UNCHANGED <<tickSz, missing_since, repost_count, last_pos_long,
                       last_pos_short, last_flat_ts_long, last_flat_ts_short,
                       streak, reposts>>

\* run_strategy_once: the grid init between takeover_positions and the loop
GridInit ==
    /\ pc = "liq_check"
    /\ last.op = "init"
    /\ \E c \in Centers : rebuild_and_place_all(c)
    /\ UNCHANGED <<pause_long, pause_short, clock, passes>>
    /\ UNCHANGED <<svars, evars>>

\* what the open-orders query answers for the ladder: every level live, the
\* buy side only, the sell side only, the outermost level of each side, or
\* nothing
SideLives ==
    {buy_cmp \cup sell_cmp, buy_cmp, sell_cmp, {}}
    \cup {{cmp_px("long", center - grid_step * levels),
           cmp_px("short", center + grid_step * levels)}}

\* the ladder repair of the loop with a built ladder: every level is live
\* or the sell side is gone
LoopPlaceMissingBuilt ==
    /\ pc = "place_missing"
    /\ \E on_exchange \in {buy_cmp \cup sell_cmp, buy_cmp} :
          place_missing("ok", on_exchange, center,
                        get_positions("ok", [long |-> 0, short |-> 0]), clock, {})
    /\ pc' = "rebuild"
    /\ sorders' = <<>>
    /\ cancels' = {}
    /\ slast' = [SStep("place_missing") EXCEPT !.was_paused = paused]
    /\ UNCHANGED <<riskvars, in_dca, dca_used, trendvars, tpvars, trend_open,
                   last_signal_ts, sig, first_entry_px>>
    /\ UNCHANGED <<ran_ts, edgevars>>

\* Market.mid when the loop rebuilds
RebuildMids == {100, 130}

\* manage_forever l.555-577
RebuildIfOneSideEaten ==
    /\ pc = "rebuild"
    /\ \E on_exchange \in SideLives, m \in RebuildMids :
          LET c == side_live_counts(_live_set("ok", on_exchange))
              fire == rebuild_due(c, clock)
          IN  /\ _had_full_live' = c.had
              /\ rb' = [live_b |-> c.live_b, live_s |-> c.live_s, had |-> c.had,
                        since |-> last_rebuild_ts, fired |-> fire,
                        cen |-> IF fire THEN m ELSE 0, center |-> center]
              /\ IF fire
                 THEN /\ last_rebuild_ts' = clock
                      /\ cancels' = {<<"GRID", "any">>}
                      /\ rebuild_and_place_all(m)
                 ELSE /\ cancels' = {}
                      /\ UNCHANGED <<last_rebuild_ts, gfix>>
    /\ pc' = "signal"
    /\ sorders' = <<>>
    /\ slast' = [SStep("rebuild_test") EXCEPT !.was_paused = paused]
    /\ UNCHANGED <<pause_long, pause_short, clock, passes>>
    /\ UNCHANGED <<riskvars, in_dca, dca_used, trendvars, tpvars, trend_open,
                   last_signal_ts, sig, first_entry_px>>
    /\ UNCHANGED <<ran_ts, _CL_COUNTER, posts, gw, tuning, resting>>

NextRebuild ==
    \/ TakeoverFlat
    \/ GridInit
    \/ LiqpxGuardCheckFar
    \/ GuardRefreshCalm
    \/ LoopPlaceMissingBuilt
    \/ RebuildIfOneSideEaten
    \/ SignalRefreshQuiet
    \/ DcaPassQuiet
    \/ TrendPassQuiet
    \/ TakeProfitPassQuiet
    \/ Sleep

SpecRebuild == Init /\ [][NextRebuild]_vars

\* the latest step was the loop's test for a ladder with one side eaten
RebuildTestRan == slast.op = "rebuild_test"

\* side_live_counts reported no live level on one side and some on the other
OneSideEmpty ==
    \/ rb.live_b = 0 /\ rb.live_s >= 1
    \/ rb.live_s = 0 /\ rb.live_b >= 1

\* the step cancelled the GRID orders, rebuilt the ladder around the price
\* it read and submitted every level of the new ladder
RebuiltAndPlaced ==
    /\ cancels = {<<"GRID", "any">>}
    /\ center = rb.cen /\ rb.cen \in RebuildMids
    /\ \A i \in 1..levels :
          /\ buy_lv[i][1] = rb.cen - grid_step * i
          /\ sell_lv[i][1] = rb.cen + grid_step * i
    /\ Len(buy_lv) = levels /\ Len(sell_lv) = levels
    /\ last.op = "place_all"
    /\ \A p \in LadderPrices : SubmittedFor(p)

\* the step left the ladder and the orders alone
LadderKept ==
    /\ cancels = {} /\ center = rb.center /\ last.op = "place_missing"
    /\ \A i \in 1..levels :
          /\ buy_lv[i][1] = rb.center - grid_step * i
          /\ sell_lv[i][1] = rb.center + grid_step * i

(***************************************************************************)
(* C33: in an iteration where side_live_counts reports no live level on    *)
(* one side and at least one on the other, the ladder having been fully    *)
(* live once and the rebuild cooldown having elapsed since the latest      *)
(* rebuild, the loop cancels the GRID orders, rebuilds the ladder around   *)
(* the price it reads and runs place_all; in an iteration where both sides *)
(* have live levels it does not rebuild.                                   *)
(***************************************************************************)
C33_RebuildWhenOneSideEaten ==
    RebuildTestRan =>
        /\ (rb.had /\ OneSideEmpty /\ clock - rb.since >= REBUILD_COOLDOWN_SEC)
              => RebuiltAndPlaced
        /\ (rb.live_b >= 1 /\ rb.live_s >= 1) => LadderKept

\* the sell side is eaten at a higher price: the ladder built around 100 is
\* rebuilt around 130 and placed
C33_RebuiltAroundNewPrice ==
    /\ RebuildTestRan /\ rb.had
    /\ rb.live_s = 0 /\ rb.live_b >= 1
    /\ rb.center = 100 /\ center = 130
    /\ RebuiltAndPlaced

====
